---- MODULE Spec2Model ----
(***************************************************************************)
(* Model of the harmonization core of FAIR_eva: the ConfigTerms decorator  *)
(* (api/evaluator.py), MetadataValuesBase.gather / validate and the        *)
(* digital_csic plugin's MetadataValues routines; of indicator methods of  *)
(* EvaluatorBase with their API functions (fair_eva/api/rda.py); of the   *)
(* vocabulary connectors (api/vocabulary.py); and of the download polling  *)
(* of the gbif plugin and the REST harvesting of the digital_csic plugin.  *)
(*                                                                         *)
(* Specifications: Spec (the decorator on a growing metadata table),       *)
(* SpecIndicators (requests to indicators of one evaluator instance),      *)
(* SpecRoutines (gather / validate on lists of raw values),                *)
(* SpecConnectors (the collect calls of one connector instance),           *)
(* SpecAll (one rda_all request), SpecGbif (one gbif_download_request      *)
(* call) and SpecRest (one get_metadata_api call of digital_csic).         *)
(*                                                                         *)
(* Python values are represented as follows.                               *)
(*   str            a sequence of tokens, e.g. <<"start", "=", "a">>       *)
(*   None           the string "None"                                      *)
(*   list           a sequence                                             *)
(*   dict           where the iteration order is used (terms_map, the      *)
(*                  vocabularies of a category): a sequence of             *)
(*                  [k |-> key, v |-> value] records in insertion order,   *)
(*                  keys unique; elsewhere (kwargs, a validation result):  *)
(*                  a function from the keys                               *)
(* A homogenized value is a record: [str |-> s] for a Python str,          *)
(* [start_date |-> s, end_date |-> e] for the temporal-coverage dict and   *)
(* [cls |-> name] for a class object returned by an unimplemented routine. *)
(***************************************************************************)
EXTENDS Integers, Sequences, FiniteSets, TLC

\* None as a metadata qualifier
None == "None"

\* None as the result of a category routine
NoValue == [none |-> TRUE]

Min(a, b) == IF a < b THEN a ELSE b
Max(a, b) == IF a > b THEN a ELSE b

Range(s) == {s[i] : i \in 1..Len(s)}

(***************************************************************************)
(* Python str primitives over token sequences.                             *)
(***************************************************************************)

\* sub in s
Contains(s, sub) ==
    \E i \in 0..(Len(s) - Len(sub)) : SubSeq(s, i + 1, i + Len(sub)) = sub

\* s.find(sub): lowest 0-based index, -1 when absent
Find(s, sub) ==
    IF Contains(s, sub)
    THEN CHOOSE i \in 0..(Len(s) - Len(sub)) :
            /\ SubSeq(s, i + 1, i + Len(sub)) = sub
            /\ \A j \in 0..(i - 1) : SubSeq(s, j + 1, j + Len(sub)) # sub
    ELSE -1

\* slice index normalisation: negative counts from the end, then clamp
SliceIdx(n, i) == IF i < 0 THEN Max(n + i, 0) ELSE Min(i, n)

\* s[i:j]
Slice(s, i, j) == SubSeq(s, SliceIdx(Len(s), i) + 1, SliceIdx(Len(s), j))

(***************************************************************************)
(* Category routines of the digital_csic plugin (MetadataValues) and the   *)
(* defaults inherited from MetadataValuesBase.  Each takes one raw str and *)
(* returns a homogenized value or NoValue.                                   *)
(***************************************************************************)

Str(s) == [str |-> s]

_get_identifiers_metadata(v) == Str(v)

_get_identifiers_data(v) == Str(v)

_get_temporal_coverage(v) ==
    IF Contains(v, <<"start">>) /\ Contains(v, <<"end">>)
    THEN [start_date |-> Slice(v, Find(v, <<"start", "=">>) + 2, Find(v, <<";">>)),
          end_date   |-> Slice(v, Find(v, <<"end", "=">>) + 2, Len(v))]
    ELSE NoValue

_get_spatial_coverage(v) ==
    IF Contains(v, <<"geonames">>) THEN Str(v) ELSE NoValue

between_brackets(v) ==
    IF Contains(v, <<"[">>) /\ Contains(v, <<"]">>)
    THEN Slice(v, Find(v, <<"[">>) + 1, Find(v, <<"]">>))
    ELSE v

_get_metadata_connection(v) == Str(between_brackets(v))

_get_resource_discovery(v) == Str(between_brackets(v))

_get_person_identifier(v) == Str(between_brackets(v))

\* _get_keywords stripping the brackets as _get_resource_discovery does
_get_keywords_Brackets(v) == Str(between_brackets(v))

_get_keywords(v) == Str(v)

_get_formats(v) == [cls |-> "NotImplementedError"]

_get_metadata_accessibility(v) == Str(v)

\* the categories gather dispatches on
GatherCategories ==
    {"Metadata Identifier", "Data Identifier", "Temporal Coverage",
     "Spatial Coverage", "Person Identifier", "Keywords", "Format",
     "Metadata for Resource Discovery", "Metadata for accesibility",
     "Metadata connection", "Data connection"}

\* the routine gather calls for one value of a dispatched category
GatherRoutine(element, v) ==
    CASE element = "Metadata Identifier" -> _get_identifiers_metadata(v)
      [] element = "Data Identifier" -> _get_identifiers_data(v)
      [] element = "Temporal Coverage" -> _get_temporal_coverage(v)
      [] element = "Spatial Coverage" -> _get_spatial_coverage(v)
      [] element = "Person Identifier" -> _get_person_identifier(v)
      [] element = "Keywords" -> _get_keywords(v)
      [] element = "Format" -> _get_formats(v)
      [] element = "Metadata for Resource Discovery" -> _get_resource_discovery(v)
      [] element = "Metadata for accesibility" -> _get_metadata_accessibility(v)
      [] element = "Metadata connection" -> _get_metadata_connection(v)
      [] element = "Data connection" -> _get_identifiers_data(v)

RECURSIVE GatherLoop(_, _)
\* the try-body of gather: append every result that is not None
GatherLoop(vals, element) ==
    IF vals = <<>> THEN <<>>
    ELSE LET r == GatherRoutine(element, Head(vals))
         IN (IF r = NoValue THEN <<>> ELSE <<r>>) \o GatherLoop(Tail(vals), element)

\* gather(element_values_list, element).  A category outside the dispatch
\* raises NotImplementedError on the first value; the except branch then
\* rebinds _values to [element_values] for each str of the input, so the
\* list returned holds the last input value only.
gather(element_values_list, element) ==
    IF element_values_list = <<>> THEN <<>>
    ELSE IF element \in GatherCategories
         THEN GatherLoop(element_values_list, element)
         ELSE <<Str(element_values_list[Len(element_values_list)])>>

(***************************************************************************)
(* Validation against controlled vocabularies.                             *)
(*                                                                         *)
(* The 'Generic:controlled_vocabularies' setting is modelled as            *)
(* [defined |-> BOOLEAN, map |-> dict category -> list of vocabulary ids]. *)
(* The answers of the external registries are an oracle                    *)
(* [ok |-> set of values recognised, err |-> set of values whose lookup    *)
(* raises].  A validation result is a function from vocabulary ids to      *)
(* [valid |-> list, non_valid |-> list]; validate returns                  *)
(* [exc |-> exception text or None, data |-> validation result].           *)
(***************************************************************************)

EmptyDict == <<>>

DictGet(d, k, default) ==
    IF \E i \in 1..Len(d) : d[i].k = k
    THEN d[CHOOSE i \in 1..Len(d) : d[i].k = k].v
    ELSE default

DictKeys(d) == {d[i].k : i \in 1..Len(d)}

\* names that hasattr(api.vocabulary, name) finds as connector classes
VocabularyClasses ==
    {"IANAMediaTypes", "FAIRsharingRegistry", "GeoNames", "RoR", "Agrovoc",
     "Getty", "Unesco", "Coar", "LibraryOfCongress", "Wikidata", "ORCID", "PIC"}

\* vocab_instance.collect(value) as seen by _validate_any_vocabulary:
\* "True", "False" or "raise".  IANAMediaTypes.collect takes no argument,
\* so the call with a value raises TypeError.
Collect(o, vocabulary_id, value) ==
    IF vocabulary_id = "IANAMediaTypes" \/ value \in o.err THEN "raise"
    ELSE IF value \in o.ok THEN "True" ELSE "False"

RECURSIVE SelectSeq2(_, _, _, _)
\* the sublist of vals whose Collect outcome is the given one
SelectSeq2(o, vocabulary_id, vals, outcome) ==
    IF vals = <<>> THEN <<>>
    ELSE (IF Collect(o, vocabulary_id, Head(vals)) = outcome
          THEN <<Head(vals)>> ELSE <<>>)
         \o SelectSeq2(o, vocabulary_id, Tail(vals), outcome)

RECURSIVE Partition(_, _, _)
\* the sublist of vals that are (want = TRUE) or are not in the set ok
Partition(ok, vals, want) ==
    IF vals = <<>> THEN <<>>
    ELSE (IF (Head(vals) \in ok) = want THEN <<Head(vals)>> ELSE <<>>)
         \o Partition(ok, Tail(vals), want)

\* MetadataValuesBase._validate_any_vocabulary
_validate_any_vocabulary(element_values, matching_vocabularies, o) ==
    [vocabulary_id \in Range(matching_vocabularies) \cap VocabularyClasses |->
        [valid     |-> SelectSeq2(o, vocabulary_id, element_values, "True"),
         non_valid |-> SelectSeq2(o, vocabulary_id, element_values, "False")]]

\* MetadataValues._validate_license (digital_csic, oai-pmh)
_validate_license(licenses, vocabularies, o) ==
    [vocabulary_id \in Range(vocabularies) |->
        IF vocabulary_id = "spdx"
        THEN [valid     |-> Partition(o.ok, licenses, TRUE),
              non_valid |-> Partition(o.ok, licenses, FALSE)]
        ELSE [valid |-> <<>>, non_valid |-> <<>>]]

\* the "Person Identifier" branch of validate
_validate_person_identifier(element_values, matching_vocabularies, o) ==
    [vocabulary_id \in Range(matching_vocabularies) |->
        [valid     |-> Partition(o.ok, element_values, TRUE),
         non_valid |-> Partition(o.ok, element_values, FALSE)]]

\* MetadataValuesBase._validate_data_connection
_validate_data_connection(element_values, o) ==
    [vocabulary_id \in {"Data Connection"} |->
        [valid     |-> Partition(o.ok, element_values, TRUE),
         non_valid |-> Partition(o.ok, element_values, FALSE)]]

Returned(data) == [exc |-> None, data |-> data]
Raised(text) == [exc |-> text, data |-> EmptyDict]

\* MetadataValuesBase.validate(element_values, element, plugin_obj)
validate(element_values, element, controlled_vocabularies, o) ==
    IF ~controlled_vocabularies.defined
    THEN Raised("Controlled vocabularies not defined in configuration")
    ELSE LET matching_vocabularies ==
                 DictGet(controlled_vocabularies.map, element, <<>>)
         IN CASE element = "Format" ->
                   \* _validate_format(cls, element_values) is called with
                   \* four positional arguments and a keyword
                   Raised("TypeError")
              [] element = "License" ->
                   Returned(_validate_license(element_values, matching_vocabularies, o))
              [] element \in {"Keywords", "Metadata for Resource Discovery",
                              "Metadata connection"} ->
                   Returned(_validate_any_vocabulary(element_values, matching_vocabularies, o))
              [] element = "Person Identifier" ->
                   Returned(_validate_person_identifier(element_values, matching_vocabularies, o))
              [] element = "Data connection" ->
                   Returned(_validate_data_connection(element_values, o))
              [] OTHER ->
                   Returned(_validate_any_vocabulary(element_values, matching_vocabularies, o))

(***************************************************************************)
(* ConfigTerms.__call__.wrapper                                            *)
(*                                                                         *)
(* terms_map is a dict canonical term -> value, where a value is           *)
(*   [kind |-> "list", fields |-> list of fields]  or                      *)
(*   [kind |-> "scalar", element |-> str]                                  *)
(* and a field is [kind |-> "pair", element, qualifier] for [elem, qual]   *)
(* or [kind |-> "name", element, qualifier |-> None] for a bare str.       *)
(* An element name is a str given as its sequence of characters.           *)
(* A metadata row is [element, qualifier, text_value].                     *)
(***************************************************************************)

Pair(e, q) == [kind |-> "pair", element |-> e, qualifier |-> q]
Name(e) == [kind |-> "name", element |-> e, qualifier |-> None]

RECURSIVE FlattenSeq(_)
FlattenSeq(ss) == IF ss = <<>> THEN <<>> ELSE Head(ss) \o FlattenSeq(Tail(ss))

\* the (element, qualifier) frame rows contributed by one requested term
\* (first loop of the wrapper, evaluator.py lines 84-118)
TermFrameRows(terms_map, term) ==
    IF term \notin DictKeys(terms_map) THEN <<>>
    ELSE LET values == DictGet(terms_map, term, None)
         IN IF values.kind = "list"
            THEN [i \in 1..Len(values.fields) |->
                    [element |-> values.fields[i].element,
                     qualifier |-> values.fields[i].qualifier]]
            ELSE <<[element |-> values.element, qualifier |-> None]>>

\* term_metadata after the first loop
ConfiguredFields(terms_map, term_list) ==
    FlattenSeq([i \in 1..Len(term_list) |-> TermFrameRows(terms_map, term_list[i])])

\* api.utils.check_metadata_terms_with_values: the metadata rows whose
\* element matches a configured field and whose qualifier matches it
\* exactly, an empty qualifier matching an empty one
check_metadata_terms_with_values(metadata, term_metadata) ==
    LET keep(r) == \E i \in 1..Len(term_metadata) :
                      /\ term_metadata[i].element = r.element
                      /\ term_metadata[i].qualifier = r.qualifier
    IN SelectSeq(metadata, keep)

\* what 'for term_key_plugin in value' iterates over: the fields of a list,
\* the characters of a str
IterFields(value) ==
    IF value.kind = "list" THEN value.fields
    ELSE [i \in 1..Len(value.element) |-> Name(<<value.element[i]>>)]

\* term_values: the text values of the rows selected for one field
\* (lines 164-172).  pandas evaluates '== None' to False for every row.
SelectValues(term_metadata, term_key_plugin) ==
    LET keep(r) ==
            IF term_key_plugin.kind = "pair"
            THEN /\ r.element = term_key_plugin.element
                 /\ term_key_plugin.qualifier # None
                 /\ r.qualifier = term_key_plugin.qualifier
            ELSE r.element = term_key_plugin.element
        rows == SelectSeq(term_metadata, keep)
    IN [i \in 1..Len(rows) |-> rows[i].text_value]

\* kwargs.update({k: v})
DictUpdate(kwargs, k, v) == (k :> v) @@ kwargs

HomogenizationFault == "No values resulted from the homogenization process"

\* the merge of a new payload with the payload found under 'term'
\* (line 262): _metadata_payload.update(_previous_payload)
MergePayload(_metadata_payload, _previous_payload) ==
    [values |-> _previous_payload.values,
     validation |-> _previous_payload.validation]

\* the merge of the new values with the values found under 'key'
\* (line 284): term_values_list.extend(_previous_values_list)
MergeValues(term_values_list, _previous_values_list) ==
    term_values_list \o _previous_values_list

\* FieldPass in which an empty homogenization result is taken for "no values"
\* instead of being raised
FieldPass_NoFault(st, key, term_key_plugin, term, term_metadata, do_validate, controlled_vocabularies, o) ==
    LET term_values_list == gather(SelectValues(term_metadata, term_key_plugin), key)
        val == IF term_values_list # <<>>
               THEN validate(term_values_list, term, controlled_vocabularies, o)
               ELSE Returned(EmptyDict)
        payload == [values |-> term_values_list, validation |-> val.data]
    IN IF st.exc # None THEN st
       ELSE IF do_validate
       THEN IF val.exc # None THEN [st EXCEPT !.exc = val.exc]
            ELSE [st EXCEPT !.kwargs =
                    DictUpdate(st.kwargs, key,
                        IF term \in DOMAIN st.kwargs
                        THEN MergePayload(payload, st.kwargs[term])
                        ELSE payload)]
       ELSE [st EXCEPT !.kwargs =
                DictUpdate(st.kwargs, key,
                    IF key \in DOMAIN st.kwargs
                    THEN MergeValues(term_values_list, st.kwargs[key])
                    ELSE term_values_list)]

\* one pass of the inner loop (lines 154-298) for one concrete field.
\* st = [kwargs, exc]; 'term' is the variable left by the first loop,
\* i.e. the last entry of term_list.
FieldPass(st, key, term_key_plugin, term, term_metadata, do_validate, controlled_vocabularies, o) ==
    LET term_values == SelectValues(term_metadata, term_key_plugin)
        term_values_list_temp == gather(term_values, key)
        term_values_list == IF term_values = <<>> THEN <<>> ELSE term_values_list_temp
        val == IF term_values_list # <<>>
               THEN validate(term_values_list, term, controlled_vocabularies, o)
               ELSE Returned(EmptyDict)
        payload == [values |-> term_values_list, validation |-> val.data]
    IN IF st.exc # None THEN st
       ELSE IF term_values # <<>> /\ term_values_list_temp = <<>>
       THEN [st EXCEPT !.exc = HomogenizationFault]
       ELSE IF do_validate
       THEN IF val.exc # None THEN [st EXCEPT !.exc = val.exc]
            ELSE [st EXCEPT !.kwargs =
                    DictUpdate(st.kwargs, key,
                        IF term \in DOMAIN st.kwargs
                        THEN MergePayload(payload, st.kwargs[term])
                        ELSE payload)]
       ELSE [st EXCEPT !.kwargs =
                DictUpdate(st.kwargs, key,
                    IF key \in DOMAIN st.kwargs
                    THEN MergeValues(term_values_list, st.kwargs[key])
                    ELSE term_values_list)]

RECURSIVE FieldLoop(_, _, _, _, _, _, _, _)
\* the inner loop 'for term_key_plugin in value' (line 154)
FieldLoop(st, key, fields, term, term_metadata, do_validate, controlled_vocabularies, o) ==
    IF fields = <<>> THEN st
    ELSE FieldLoop(FieldPass(st, key, Head(fields), term, term_metadata,
                             do_validate, controlled_vocabularies, o),
                   key, Tail(fields), term, term_metadata, do_validate,
                   controlled_vocabularies, o)

RECURSIVE TermsMapLoop(_, _, _, _, _, _, _)
\* the outer loop over plugin.terms_map.items() (lines 149-152)
TermsMapLoop(st, items, term_list, term_metadata, do_validate, controlled_vocabularies, o) ==
    IF items = <<>> THEN st
    ELSE LET key == Head(items).k
             value == Head(items).v
             term == term_list[Len(term_list)]
             st1 == IF key \in Range(term_list)
                    THEN FieldLoop(st, key, IterFields(value), term, term_metadata,
                                   do_validate, controlled_vocabularies, o)
                    ELSE st
         IN TermsMapLoop(st1, Tail(items), term_list, term_metadata, do_validate,
                         controlled_vocabularies, o)

\* Python truthiness of an injected argument: with validate=False it is a
\* list, true when non-empty; with validate=True it is the payload dict,
\* which always holds its two keys and so is always true
Truthy(value, do_validate) == IF do_validate THEN TRUE ELSE value # <<>>

\* Points with the truth test inverted: counts the keys without values
Points_CountsEmpty(kwargs, do_validate) ==
    LET total_keys == Cardinality(DOMAIN kwargs)
        keys_with_values ==
            Cardinality({k \in DOMAIN kwargs : ~Truthy(kwargs[k], do_validate)})
    IN IF keys_with_values = total_keys
       THEN [num |-> 100, den |-> 1]
       ELSE [num |-> keys_with_values * 100, den |-> total_keys]

\* points (lines 301-306) as the exact fraction num/den
Points(kwargs, do_validate) ==
    LET total_keys == Cardinality(DOMAIN kwargs)
        keys_with_values ==
            Cardinality({k \in DOMAIN kwargs : Truthy(kwargs[k], do_validate)})
    IN IF keys_with_values = total_keys
       THEN [num |-> 100, den |-> 1]
       ELSE [num |-> keys_with_values * 100, den |-> total_keys]

MsgNotDefined == "Metadata values are not defined in configuration for the term"
MsgNoMetadata == "No access information can be found in the metadata"

\* wrapper without the early return for the case that no row matches
wrapper_NoRowCheck(metadata, terms_map, term_list, do_validate, controlled_vocabularies, o) ==
    LET term_metadata0 == ConfiguredFields(terms_map, term_list)
        term_metadata == check_metadata_terms_with_values(metadata, term_metadata0)
        st == TermsMapLoop([kwargs |-> EmptyDict, exc |-> None], terms_map, term_list,
                           term_metadata, do_validate, controlled_vocabularies, o)
    IN IF term_metadata0 = <<>>
       THEN [kind |-> "return", points |-> [num |-> 0, den |-> 1], msg |-> MsgNotDefined]
       ELSE IF st.exc # None
       THEN [kind |-> "raise", exc |-> st.exc]
       ELSE [kind |-> "call", kwargs |-> st.kwargs, points |-> Points(st.kwargs, do_validate)]

\* the wrapper as a whole.  Outcomes:
\*   [kind |-> "return", points, msg]   early return of (0, msg)
\*   [kind |-> "raise", exc]            an exception leaves the wrapper
\*   [kind |-> "call", kwargs, points]  wrapped_func is called with these
wrapper(metadata, terms_map, term_list, do_validate, controlled_vocabularies, o) ==
    LET term_metadata0 == ConfiguredFields(terms_map, term_list)
        term_metadata == check_metadata_terms_with_values(metadata, term_metadata0)
        st == TermsMapLoop([kwargs |-> EmptyDict, exc |-> None], terms_map, term_list,
                           term_metadata, do_validate, controlled_vocabularies, o)
    IN IF term_metadata0 = <<>>
       THEN [kind |-> "return", points |-> [num |-> 0, den |-> 1], msg |-> MsgNotDefined]
       ELSE IF term_metadata = <<>>
       THEN [kind |-> "return", points |-> [num |-> 0, den |-> 1], msg |-> MsgNoMetadata]
       ELSE IF st.exc # None
       THEN [kind |-> "raise", exc |-> st.exc]
       ELSE [kind |-> "call", kwargs |-> st.kwargs, points |-> Points(st.kwargs, do_validate)]

(***************************************************************************)
(* State: one plugin instance, its configuration, the answers of the       *)
(* external registries, and the outcome of the last call of an indicator   *)
(* method decorated with @ConfigTerms(term_id, validate).                  *)
(***************************************************************************)

VARIABLES
    plugin_metadata,      \* plugin.metadata: list of rows
    plugin_terms_map,     \* plugin.terms_map
    config_term_list,     \* plugin.config[plugin.name][term_id]
    self_validate,        \* the decorator's validate argument
    config_cvs,           \* plugin.config["Generic"]["controlled_vocabularies"]
    registry,             \* what the external vocabularies answer
    outcome,              \* outcome of the last wrapper call, or idle
    seen,                 \* number of metadata rows at the last wrapper call
    previous              \* outcome and row count of the call before the last

\* the evaluator instance behind the API and the result of the last request
VARIABLES
    self_cvs,             \* EvaluatorBase.cvs: vocabulary ids found in use
    dict_vocabularies,    \* EvaluatorBase.dict_vocabularies (its keys)
    metadata_standard,    \* EvaluatorBase.metadata_standard
    config_terms_license, \* plugin.config[plugin.name]["terms_license"]
    config_terms_cv,      \* plugin.config[plugin.name]["terms_cv"]
    indicator,            \* the last indicator method called and its outcome
    api_result            \* what the API function of that indicator produced

\* one call of MetadataValuesBase.gather / validate on a list of raw values
VARIABLES
    cls,                  \* the class the classmethods are called on
    element_values,       \* the raw values handed to gather
    element,              \* the category
    gathered,             \* result of gather(element_values, element)
    regathered,           \* result of gather applied to that result
    validated             \* result of validate on the gathered values

\* one vocabulary connector and the collect call in progress
VARIABLES
    vocabulary,           \* the connector class
    enable_remote_check,  \* VocabularyConnection.enable_remote_check
    remote_path,          \* _config_items["remote_path"]
    server,               \* how the remote endpoint behaves
    pc,                   \* position of the collect call
    term,                 \* the local variable term of collect
    status_code,          \* the local variable status_code of collect
    requests_made,        \* HTTP requests issued by the call so far
    events,               \* the remote and local accesses of the call, in order
    collected             \* what collect returned or raised

\* one rda_all request (fair_eva/api/rda.py)
VARIABLES
    api_config_found,     \* whether the API description file can be loaded
    paths,                \* documents["paths"], in file order
    all_pc,               \* position of the request
    all_next,             \* index of the next path of the loop
    x_principle,          \* the local variable x_principle
    all_points,           \* the local variable points, NoValue while unbound
    groups,               \* findable, accessible, interoperable, reusable, data_test
    all_response          \* what rda_all returned or raised

\* one gbif_download_request call (plugins/gbif/gbif_data.py)
VARIABLES
    timeout,              \* the argument, then the local variable, timeout
    download_key_ok,      \* whether the download key request answers 200
    gbif_pc,              \* position of the call
    gbif_status,          \* the local variable status
    elapsed,              \* time.time() - t0, in seconds
    download_request,     \* the last answer polled, NoValue before the first
    gbif_result           \* what the call returned or raised

\* one get_metadata_api call of the digital_csic plugin
VARIABLES
    item_type,            \* the argument item_type
    rest_pc,              \* position of the call: the request loop it is in
    tries,                \* iterations done of the current request loop
    rest_r,               \* the local variable r, the last answer received
    succeeded,            \* the requests answered with 200 so far
    item_id,              \* the local variable item_id, NoValue while unbound
    rest_metadata,        \* the local variable metadata, NoValue while unbound
    rest_result           \* what the call returned or raised

wrapperVars == <<plugin_metadata, plugin_terms_map, config_term_list, self_validate,
                 config_cvs, registry, outcome, seen, previous>>

indicatorVars == <<self_cvs, dict_vocabularies, metadata_standard,
                   config_terms_license, config_terms_cv, indicator, api_result>>

routineVars == <<cls, element_values, element, gathered, regathered, validated>>

connectorVars == <<vocabulary, enable_remote_check, remote_path, server, pc, term,
                   status_code, requests_made, events, collected>>

allVars == <<api_config_found, paths, all_pc, all_next, x_principle, all_points,
             groups, all_response>>

gbifVars == <<timeout, download_key_ok, gbif_pc, gbif_status, elapsed, download_request,
              gbif_result>>

restVars == <<item_type, rest_pc, tries, rest_r, succeeded, item_id, rest_metadata,
              rest_result>>

serviceVars == <<allVars, gbifVars, restVars>>

vars == <<wrapperVars, indicatorVars, routineVars, connectorVars, serviceVars>>

\* bound on the number of metadata rows
MaxRows == 2

Idle == [kind |-> "idle"]

\* element names and raw values used to populate the model
ElemSubject == <<"s">>
ElemCoverage == <<"c">>
ValKeyword == <<"k">>
ValOther == <<"x">>
ValPeriod == <<"start", "=", "a", ";", "end", "=", "b">>

RowPool ==
    {[element |-> ElemSubject, qualifier |-> None, text_value |-> ValKeyword],
     [element |-> ElemSubject, qualifier |-> "q", text_value |-> ValOther],
     [element |-> ElemCoverage, qualifier |-> "t", text_value |-> ValPeriod],
     [element |-> ElemCoverage, qualifier |-> "t", text_value |-> ValOther],
     [element |-> ElemCoverage, qualifier |-> None, text_value |-> ValPeriod]}

\* the non-empty lists without repetition over a set of at most two fields
FieldLists(S) ==
    {<<f>> : f \in S} \cup {<<p[1], p[2]>> : p \in {q \in S \X S : q[1] # q[2]}}

KeywordsFields == {Name(ElemSubject), Pair(ElemSubject, "q")}
CoverageFields == {Pair(ElemCoverage, "t"), Pair(ElemCoverage, None)}

Entry(key, fields) == [k |-> key, v |-> [kind |-> "list", fields |-> fields]]

TermsMapPool ==
    {<<>>}
    \cup {<<Entry("Keywords", f)>> : f \in FieldLists(KeywordsFields)}
    \cup {<<Entry("Temporal Coverage", f)>> : f \in FieldLists(CoverageFields)}
    \cup {<<Entry("Keywords", f), Entry("Temporal Coverage", g)>> :
             f \in FieldLists(KeywordsFields), g \in FieldLists(CoverageFields)}
    \cup {<<Entry("Temporal Coverage", g), Entry("Keywords", f)>> :
             f \in FieldLists(KeywordsFields), g \in FieldLists(CoverageFields)}

TermListPool ==
    {<<"Keywords">>, <<"Keywords", "Temporal Coverage">>,
     <<"Temporal Coverage", "Keywords">>, <<"Keywords", "License">>}

CvsPool ==
    {[defined |-> FALSE, map |-> <<>>],
     [defined |-> TRUE, map |-> <<[k |-> "Keywords", v |-> <<"Agrovoc">>]>>],
     [defined |-> TRUE, map |-> <<[k |-> "Keywords", v |-> <<"Agrovoc">>],
                                  [k |-> "Temporal Coverage", v |-> <<"Getty">>]>>]}

RegistryPool ==
    {[ok |-> {Str(ValKeyword)}, err |-> {}],
     [ok |-> {Str(ValKeyword)}, err |-> {Str(ValOther)}]}

\* configuration that is not read when validate=False
NoCvs == [defined |-> FALSE, map |-> <<>>]
NoRegistry == [ok |-> {}, err |-> {}]

\* the evaluator before any indicator was requested on it
IndicatorsAtRest ==
    /\ self_cvs = {}
    /\ dict_vocabularies = <<>>
    /\ metadata_standard = <<>>
    /\ config_terms_license = <<>>
    /\ config_terms_cv = <<>>
    /\ indicator = Idle
    /\ api_result = Idle

\* no direct call of gather / validate
RoutinesAtRest ==
    /\ cls = "MetadataValues"
    /\ element_values = <<>>
    /\ element = "Keywords"
    /\ gathered = Idle
    /\ regathered = Idle
    /\ validated = Idle

\* no vocabulary connector in use
ConnectorsAtRest ==
    /\ vocabulary = "ORCID"
    /\ enable_remote_check = TRUE
    /\ remote_path = <<>>
    /\ server = "any"
    /\ pc = "idle"
    /\ term = NoValue
    /\ status_code = 0
    /\ requests_made = 0
    /\ events = <<>>
    /\ collected = Idle

\* the (empty) result groups rda_all starts with
NoGroups ==
    [g \in {"findable", "accessible", "interoperable", "reusable", "data_test"} |->
        EmptyDict]

\* no rda_all request
AllAtRest ==
    /\ api_config_found = TRUE
    /\ paths = <<>>
    /\ all_pc = "idle"
    /\ all_next = 1
    /\ x_principle = ""
    /\ all_points = NoValue
    /\ groups = NoGroups
    /\ all_response = Idle

\* no gbif_download_request call
GbifAtRest ==
    /\ timeout = 1
    /\ download_key_ok = TRUE
    /\ gbif_pc = "idle"
    /\ gbif_status = "PREPARING"
    /\ elapsed = 0
    /\ download_request = NoValue
    /\ gbif_result = Idle

\* r before the first request
NoAnswer == [status |-> 0, body |-> "none"]

\* no get_metadata_api call
RestAtRest ==
    /\ item_type = "doi"
    /\ rest_pc = "idle"
    /\ tries = 0
    /\ rest_r = NoAnswer
    /\ succeeded = {}
    /\ item_id = NoValue
    /\ rest_metadata = NoValue
    /\ rest_result = Idle

ServicesAtRest == AllAtRest /\ GbifAtRest /\ RestAtRest

Init ==
    /\ plugin_metadata = <<>>
    /\ plugin_terms_map \in TermsMapPool
    /\ config_term_list \in TermListPool
    /\ self_validate \in BOOLEAN
    /\ config_cvs \in (IF self_validate THEN CvsPool ELSE {NoCvs})
    /\ registry \in (IF self_validate THEN RegistryPool ELSE {NoRegistry})
    /\ outcome = Idle
    /\ seen = 0
    /\ previous = [outcome |-> Idle, seen |-> 0]
    /\ IndicatorsAtRest
    /\ RoutinesAtRest
    /\ ConnectorsAtRest
    /\ ServicesAtRest

\* the collector appends a row to the metadata table of the item, while the
\* table is built and when the item is harvested again with more metadata
CollectRow ==
    /\ Len(plugin_metadata) < MaxRows
    /\ \E r \in RowPool : plugin_metadata' = Append(plugin_metadata, r)
    /\ UNCHANGED <<plugin_terms_map, config_term_list, self_validate, config_cvs,
                   registry, outcome, seen, previous>>
    /\ UNCHANGED <<indicatorVars, routineVars, connectorVars, serviceVars>>

\* a call of the decorated indicator method: the wrapper runs to its end.
\* Plugin.__init__ raises when the metadata table is empty, so an instance
\* whose methods can be called holds at least one row.
Harmonize ==
    /\ plugin_metadata # <<>>
    /\ outcome' = wrapper(plugin_metadata, plugin_terms_map, config_term_list,
                          self_validate, config_cvs, registry)
    /\ seen' = Len(plugin_metadata)
    /\ previous' = [outcome |-> outcome, seen |-> seen]
    /\ UNCHANGED <<plugin_metadata, plugin_terms_map, config_term_list,
                   self_validate, config_cvs, registry>>
    /\ UNCHANGED <<indicatorVars, routineVars, connectorVars, serviceVars>>

Next == CollectRow \/ Harmonize

Spec == Init /\ [][Next]_vars

TypeOK ==
    /\ outcome.kind \in {"idle", "return", "raise", "call"}
    /\ previous.outcome.kind \in {"idle", "return", "raise", "call"}
    /\ seen \in 0..MaxRows
    /\ previous.seen <= seen
    /\ Len(plugin_metadata) <= MaxRows

(***************************************************************************)
(* Indicator methods of EvaluatorBase and their API functions              *)
(* (fair_eva/api/rda.py).                                                  *)
(*                                                                         *)
(* The outcome of a method or function is [kind |-> "result", ...] when it *)
(* returns and [kind |-> "raise", exc |-> name] when an exception leaves   *)
(* it.  self.cvs is a list kept free of duplicates of which only the       *)
(* length and the membership are read: it is modelled as a set.            *)
(***************************************************************************)

Result(points, msg) == [kind |-> "result", points |-> points, msg |-> msg]

Raise(exc) == [kind |-> "raise", exc |-> exc]

\* a whole number of points
Pts(n) == [num |-> n, den |-> 1]

\* a method decorated with @ConfigTerms: the outcome when the wrapper
\* returns its own (0, msg) or raises; NoValue when it calls the method
Decorated(w) ==
    CASE w.kind = "return" -> Result(w.points, w.msg)
      [] w.kind = "raise" -> Raise(w.exc)
      [] OTHER -> NoValue

\* the metadata elements of a validation payload with a vocabulary in use
ElementsUsingVocabulary(validation_payload) ==
    {e \in DOMAIN validation_payload :
        \E vocabulary_id \in DOMAIN validation_payload[e].validation :
            validation_payload[e].validation[vocabulary_id].valid # <<>>}

\* EvaluatorBase.eval_validated_basic: the points
eval_validated_basic(validation_payload) ==
    IF Cardinality(DOMAIN validation_payload) > 0
    THEN [num |-> 100 * Cardinality(ElementsUsingVocabulary(validation_payload)),
          den |-> Cardinality(DOMAIN validation_payload)]
    ELSE Pts(0)

\* the vocabulary ids rda_i1_01m appends to self.cvs
VocabulariesInUse(kwargs) ==
    {vocabulary_id \in UNION {DOMAIN kwargs[e].validation : e \in DOMAIN kwargs} :
        \E e \in DOMAIN kwargs :
            /\ vocabulary_id \in DOMAIN kwargs[e].validation
            /\ kwargs[e].validation[vocabulary_id].valid # <<>>}

\* EvaluatorBase.rda_i1_01m, w being the outcome of its wrapper
\* (term_id "terms_cv", validate=True)
rda_i1_01m(cvs, w) ==
    IF Decorated(w) # NoValue
    THEN [out |-> Decorated(w), cvs |-> cvs]
    ELSE [out |-> Result(eval_validated_basic(w.kwargs), "Found elements using standard vocabularies"),
          cvs |-> cvs \cup VocabulariesInUse(w.kwargs)]

\* EvaluatorBase.rda_i2_01m; links holds the vocabularies whose URL
\* ut.check_link resolves.  The division by len(self.cvs) is evaluated
\* once per key of dict_vocabularies.
rda_i2_01m(cvs, w, vocabularies, links) ==
    LET i1 == IF cvs = {} THEN rda_i1_01m(cvs, w)
              ELSE [out |-> NoValue, cvs |-> cvs]
        passed == Cardinality({vocab \in Range(vocabularies) :
                                  vocab \in i1.cvs /\ vocab \in links})
    IN IF cvs = {} /\ i1.out.kind = "raise"
       THEN i1
       ELSE IF vocabularies # <<>> /\ i1.cvs = {}
       THEN [out |-> Raise("ZeroDivisionError"), cvs |-> i1.cvs]
       ELSE [out |-> Result(Pts(IF passed > 0 THEN 100 ELSE 0),
                            IF cvs = {} THEN "No controlled vocabularies found"
                            ELSE "The checked vocabularies the current version are:"),
             cvs |-> i1.cvs]

\* EvaluatorBase.rda_r1_1_01m, w being the outcome of its wrapper
\* (term_id "terms_license").  msg is bound only when the list is not empty.
rda_r1_1_01m(w) ==
    IF Decorated(w) # NoValue THEN Decorated(w)
    ELSE IF "License" \notin DOMAIN w.kwargs THEN Raise("KeyError")
    ELSE IF Len(w.kwargs["License"]) > 0
         THEN Result(Pts(100), IF Len(w.kwargs["License"]) > 1
                               THEN "The licenses are : " ELSE "The license is: ")
         ELSE Raise("UnboundLocalError")

\* EvaluatorBase.rda_r1_3_01m for a configured standard; listed tells
\* whether FAIRsharing lists the standard
rda_r1_3_01m(standard, listed) ==
    IF standard = <<>> THEN Result(Pts(0), "No metadata standard")
    ELSE IF listed
         THEN Result(Pts(100), "Metadata standard in use complies with a community standard according to FAIRsharing.org")
         ELSE Result(Pts(0), "No metadata standard")

\* EvaluatorBase.rda_r1_3_02m, w being the outcome of its wrapper
\* (term_id "terms_license").  The early return reads msg, a local that
\* is bound only further down.
rda_r1_3_02m(w, standard, listed) ==
    IF Decorated(w) # NoValue THEN Decorated(w)
    ELSE IF standard = <<>> THEN Raise("UnboundLocalError")
    ELSE rda_r1_3_01m(standard, listed)

\* rda_r1_01m dividing by the number of terms instead of len(kwargs)
rda_r1_01m_OverTerms(w) ==
    IF Decorated(w) # NoValue THEN Decorated(w)
    ELSE LET found == Cardinality({e \in DOMAIN w.kwargs : w.kwargs[e] # <<>>})
                      + (IF w.points.num # 0 THEN 1 ELSE 0)
         IN Result([num |-> 100 * found, den |-> Cardinality(DOMAIN w.kwargs)],
                   "Found metadata elements that enhance reusability")

\* EvaluatorBase.rda_r1_01m, w being the outcome of its wrapper (term_id
\* "terms_reusability_richness").  The kwargs of the method hold the terms
\* and the key "points" the wrapper adds; both are counted.
rda_r1_01m(w) ==
    IF Decorated(w) # NoValue THEN Decorated(w)
    ELSE LET found == Cardinality({e \in DOMAIN w.kwargs : w.kwargs[e] # <<>>})
                      + (IF w.points.num # 0 THEN 1 ELSE 0)
         IN Result([num |-> 100 * found, den |-> Cardinality(DOMAIN w.kwargs) + 1],
                   IF found > 0 THEN "Found metadata elements that enhance reusability"
                   ELSE "Could not fing any metadata element that enhance reusability")

\* EvaluatorBase.eval_persistency; persistent holds the identifiers
\* ut.is_persistent_id accepts
eval_persistency(id_list, persistent) ==
    IF id_list = <<>> THEN Raise("ZeroDivisionError")
    ELSE Result(Pts(IF Range(id_list) \cap persistent # {} THEN 100 ELSE 0),
                "Found persistent identifier for the metadata")

\* EvaluatorBase.rda_f1_01m, w being the outcome of its wrapper (term_id
\* "identifier_term"); policy tells whether a persistence policy is
\* configured and its link resolves
rda_f1_01m(w, persistent, policy) ==
    IF Decorated(w) # NoValue THEN Decorated(w)
    ELSE IF "Metadata Identifier" \notin DOMAIN w.kwargs THEN Raise("KeyError")
    ELSE LET r == eval_persistency(w.kwargs["Metadata Identifier"], persistent)
         IN IF r.kind = "result" /\ r.points.num = 0 /\ policy
            THEN Result(Pts(100), "Identifier found and persistence policy given ")
            ELSE r

\* the API function of an indicator (rda.py): the except branch builds its
\* result with ut.test_status(points), and points is bound only when the
\* method returned
ApiFunction(name, out) ==
    IF out.kind = "result"
    THEN [kind |-> "response", name |-> name, msg |-> out.msg,
          points |-> out.points, exit_code |-> 200]
    ELSE Raise("UnboundLocalError")

ElemRights == <<"r">>
ElemIdentifier == <<"i">>
\* an element name of two characters
ElemLicense == <<"l", "c">>

\* a terms_map entry whose value is the element name itself, not a list
ScalarEntry(key, e) == [k |-> key, v |-> [kind |-> "scalar", element |-> e]]
ValLicense == <<"cc">>

\* metadata tables of a constructed plugin (never empty)
IndicatorMetadataPool ==
    LET kw == [element |-> ElemSubject, qualifier |-> None, text_value |-> ValKeyword]
        other == [element |-> ElemSubject, qualifier |-> None, text_value |-> ValOther]
        lic == [element |-> ElemRights, qualifier |-> None, text_value |-> ValLicense]
        id == [element |-> ElemIdentifier, qualifier |-> None, text_value |-> ValOther]
        lc == [element |-> ElemLicense, qualifier |-> None, text_value |-> ValLicense]
    IN {<<kw>>, <<other>>, <<lic>>, <<kw, lic>>, <<lic, lic>>, <<id>>, <<id, kw>>,
        <<lc>>}

IndicatorTermsMapPool ==
    {<<Entry("Keywords", <<Name(ElemSubject)>>)>>,
     <<Entry("License", <<Name(ElemRights)>>)>>,
     <<Entry("Keywords", <<Name(ElemSubject)>>), Entry("License", <<Name(ElemRights)>>)>>,
     <<Entry("Metadata Identifier", <<Name(ElemIdentifier)>>),
       Entry("Keywords", <<Name(ElemSubject)>>)>>,
     <<ScalarEntry("License", ElemLicense)>>}

\* plugin.config[plugin.name]["terms_reusability_richness"]
TermsReusabilityPool == {<<"Keywords", "License">>}

\* plugin.config[plugin.name]["identifier_term"]
IdentifierTerm == <<"Metadata Identifier">>

TermsLicensePool == {<<"License">>, <<"Keywords", "License">>}

DictVocabulariesPool == {<<>>, <<"Agrovoc">>, <<"Agrovoc", "Getty">>}

MetadataStandardPool == {<<>>, <<"DC">>}

InitIndicators ==
    /\ plugin_metadata \in IndicatorMetadataPool
    /\ plugin_terms_map \in IndicatorTermsMapPool
    /\ config_term_list \in TermsReusabilityPool
    /\ self_validate = FALSE
    /\ config_cvs \in CvsPool
    /\ registry \in RegistryPool
    /\ outcome = Idle
    /\ seen = 0
    /\ previous = [outcome |-> Idle, seen |-> 0]
    /\ self_cvs = {}
    /\ dict_vocabularies \in DictVocabulariesPool
    /\ metadata_standard \in MetadataStandardPool
    /\ config_terms_license \in TermsLicensePool
    /\ config_terms_cv = <<"Keywords">>
    /\ indicator = Idle
    /\ api_result = Idle
    /\ RoutinesAtRest
    /\ ConnectorsAtRest
    /\ ServicesAtRest

\* the wrapper outcome of a method decorated with term_id "terms_cv"
WrapTermsCv ==
    wrapper(plugin_metadata, plugin_terms_map, config_terms_cv, TRUE,
            config_cvs, registry)

\* the wrapper outcome of a method decorated with term_id "terms_license"
WrapTermsLicense ==
    wrapper(plugin_metadata, plugin_terms_map, config_terms_license, FALSE,
            NoCvs, NoRegistry)

\* the wrapper outcome of a method decorated with term_id
\* "terms_reusability_richness"
WrapTermsReusability ==
    wrapper(plugin_metadata, plugin_terms_map, config_term_list, FALSE,
            NoCvs, NoRegistry)

\* the wrapper outcome of a method decorated with term_id "identifier_term"
WrapIdentifierTerm ==
    wrapper(plugin_metadata, plugin_terms_map, IdentifierTerm, FALSE,
            NoCvs, NoRegistry)

\* a request to the API function of one indicator
Request(name, r) ==
    /\ indicator' = [kind |-> "called", name |-> name, out |-> r.out]
    /\ self_cvs' = r.cvs
    /\ api_result' = ApiFunction(name, r.out)
    /\ UNCHANGED <<dict_vocabularies, metadata_standard, config_terms_license,
                   config_terms_cv>>
    /\ UNCHANGED <<wrapperVars, routineVars, connectorVars, serviceVars>>

Request_rda_i1_01m ==
    Request("RDA_I1_01M", rda_i1_01m(self_cvs, WrapTermsCv))

Request_rda_i2_01m ==
    \E links \in SUBSET Range(dict_vocabularies) :
        Request("RDA_I2_01M",
                rda_i2_01m(self_cvs, WrapTermsCv, dict_vocabularies, links))

Request_rda_r1_1_01m ==
    Request("RDA_R1_1_01M", [out |-> rda_r1_1_01m(WrapTermsLicense), cvs |-> self_cvs])

Request_rda_r1_3_02m ==
    \E listed \in BOOLEAN :
        Request("RDA_R1_3_02M",
                [out |-> rda_r1_3_02m(WrapTermsLicense, metadata_standard, listed),
                 cvs |-> self_cvs])

Request_rda_r1_01m ==
    Request("RDA_R1_01M", [out |-> rda_r1_01m(WrapTermsReusability), cvs |-> self_cvs])

Request_rda_f1_01m ==
    \E persistent \in SUBSET {Str(ValOther)}, policy \in BOOLEAN :
        Request("RDA_F1_01M",
                [out |-> rda_f1_01m(WrapIdentifierTerm, persistent, policy),
                 cvs |-> self_cvs])

NextIndicators ==
    \/ Request_rda_r1_01m
    \/ Request_rda_f1_01m
    \/ Request_rda_i1_01m
    \/ Request_rda_i2_01m
    \/ Request_rda_r1_1_01m
    \/ Request_rda_r1_3_02m

SpecIndicators == InitIndicators /\ [][NextIndicators]_vars

(***************************************************************************)
(* gather and validate called on a list of raw values, on the base class   *)
(* MetadataValuesBase or on the plugin's MetadataValues.                   *)
(***************************************************************************)

\* bound on the number of raw values handed to gather
MaxValues == 2

\* a Python list of str in the representation of homogenized values
StrList(values) == [i \in 1..Len(values) |-> Str(values[i])]

\* the list of str behind a list of homogenized str values
RawList(values) == [i \in 1..Len(values) |-> values[i].str]

\* the categories whose MetadataValuesBase routine raises: two raise
\* NotImplementedError, _get_temporal_coverage takes a second positional
\* argument that gather does not pass
BaseRaisingCategories ==
    {"Metadata Identifier", "Data Identifier", "Data connection", "Temporal Coverage"}

\* the MetadataValuesBase routine of a category that returns
BaseRoutine(category, v) ==
    IF category \in {"Spatial Coverage", "Format", "Metadata connection"}
    THEN [cls |-> "NotImplementedError"]
    ELSE Str(v)

\* MetadataValuesBase.gather with the routines of the base class.  When
\* the routine raises on the first value, the except branch rebinds
\* _values to [element_values] for each str of the input.
gather_base(element_values_list, category) ==
    IF element_values_list = <<>> THEN <<>>
    ELSE IF category \in GatherCategories \ BaseRaisingCategories
         THEN [i \in 1..Len(element_values_list) |->
                  BaseRoutine(category, element_values_list[i])]
         ELSE <<Str(element_values_list[Len(element_values_list)])>>

\* cls.gather(element_values_list, category)
GatherOn(c, element_values_list, category) ==
    IF c = "MetadataValuesBase"
    THEN gather_base(element_values_list, category)
    ELSE gather(element_values_list, category)

\* cls.validate(values, category): MetadataValuesBase._validate_license
\* takes one argument and is called with two
ValidateOn(c, values, category, controlled_vocabularies, o) ==
    IF c = "MetadataValuesBase" /\ category = "License" /\ controlled_vocabularies.defined
    THEN Raised("TypeError")
    ELSE validate(values, category, controlled_vocabularies, o)

ValBracketed == <<"[", "k", "]">>

\* the period of ValPeriod with its two parts in the other order
ValReversed == <<"end", "=", "b", ";", "start", "=", "a">>

RawValuePool == {ValKeyword, ValOther, ValBracketed, ValPeriod, ValReversed}

\* the lists of at most n raw values
RECURSIVE RawLists(_)
RawLists(n) ==
    IF n = 0 THEN {<<>>}
    ELSE RawLists(n - 1) \cup
         {Append(l, v) : l \in {x \in RawLists(n - 1) : Len(x) = n - 1}, v \in RawValuePool}

CategoryPool ==
    {"Keywords", "License", "Metadata Identifier", "Format", "Data connection",
     "Person Identifier", "Temporal Coverage"}

InitRoutines ==
    /\ plugin_metadata = <<>>
    /\ plugin_terms_map = <<>>
    /\ config_term_list = <<>>
    /\ self_validate = TRUE
    /\ config_cvs \in CvsPool
    /\ registry \in RegistryPool
    /\ outcome = Idle
    /\ seen = 0
    /\ previous = [outcome |-> Idle, seen |-> 0]
    /\ IndicatorsAtRest
    /\ cls \in {"MetadataValuesBase", "MetadataValues"}
    /\ element_values \in RawLists(MaxValues)
    /\ element \in CategoryPool
    /\ gathered = Idle
    /\ regathered = Idle
    /\ validated = Idle
    /\ ConnectorsAtRest
    /\ ServicesAtRest

\* cls.gather(element_values, element)
Gather ==
    /\ gathered = Idle
    /\ gathered' = [kind |-> "list", values |-> GatherOn(cls, element_values, element)]
    /\ UNCHANGED <<cls, element_values, element, regathered, validated>>
    /\ UNCHANGED <<wrapperVars, indicatorVars, connectorVars, serviceVars>>

\* cls.gather called on the list a first call returned, when it holds str
Regather ==
    /\ gathered # Idle
    /\ regathered = Idle
    /\ \A i \in 1..Len(gathered.values) : DOMAIN gathered.values[i] = {"str"}
    /\ regathered' = [kind |-> "list",
                      values |-> GatherOn(cls, RawList(gathered.values), element)]
    /\ UNCHANGED <<cls, element_values, element, gathered, validated>>
    /\ UNCHANGED <<wrapperVars, indicatorVars, connectorVars, serviceVars>>

\* cls.validate(values, element) on the gathered values
Validate ==
    /\ gathered # Idle
    /\ validated = Idle
    /\ validated' = [kind |-> "done",
                     result |-> ValidateOn(cls, gathered.values, element,
                                           config_cvs, registry)]
    /\ UNCHANGED <<cls, element_values, element, gathered, regathered>>
    /\ UNCHANGED <<wrapperVars, indicatorVars, connectorVars, serviceVars>>

NextRoutines == Gather \/ Regather \/ Validate

SpecRoutines == InitRoutines /\ [][NextRoutines]_vars

(***************************************************************************)
(* Vocabulary connectors (api/vocabulary.py).                              *)
(*                                                                         *)
(* One HTTP request yields [kind |-> "error"] when requests raises         *)
(* (connection error, timeout) or a response with a status, a Location     *)
(* header (NoValue when absent) and a payload: "content" for a usable      *)
(* body, "empty" for a body without entries, "malformed" for a body that   *)
(* does not parse.  A URL is a str; what collect returns is written as the *)
(* text of the Python value.                                               *)
(***************************************************************************)

\* bound on the HTTP requests counted for one collect call; the count
\* stays at the bound when more requests are issued
MaxRequests == 3

BasePattern == {"IANAMediaTypes", "FAIRsharingRegistry", "GeoNames"}

RedirectFollowing == {"RoR", "Coar", "LibraryOfCongress"}

\* the connectors whose collect(search_topic) puts the topic into the URL
TopicConnectors == {"FAIRsharingRegistry", "GeoNames"}

ConnectorPool == BasePattern \cup RedirectFollowing \cup {"Agrovoc", "ORCID", "PIC"}

\* the remote_path of the configuration file
ConfiguredPath == <<"v">>

\* collect calls on one connector instance, one per value to validate
MaxCalls == 2

StatusPool == {200, 300, 301, 302, 404}

LocationUrl == Str(<<"v", "2">>)

TermPool == {Str(<<"v", "1">>), Str(<<"w", "1">>)}

Response(status, location, payload) ==
    [kind |-> "response", status |-> status, location |-> location, payload |-> payload]

\* what the endpoint can answer to one request
HttpOutcomes(srv) ==
    CASE srv = "every3xx" ->
            {Response(s, LocationUrl, "empty") : s \in {300, 302}}
      [] srv = "redirecting" ->
            {Response(s, LocationUrl, "empty") : s \in {301, 302}}
      [] OTHER ->
            {[kind |-> "error"]} \cup
            {Response(s, l, p) : s \in StatusPool, l \in {NoValue, LocationUrl},
                                 p \in {"content", "empty", "malformed"}}

\* requests.Response.ok
Ok(status) == status < 400

Return(value) == [kind |-> "return", value |-> value]

\* the outcome of _remote_collect
Remote(error_on_request, content) ==
    [exc |-> None, error_on_request |-> error_on_request, content |-> content]

\* IANAMediaTypes._remote_collect on the outcome h of its request
IANAMediaTypes_remote_collect(h) ==
    IF h.kind = "error" THEN [exc |-> "ConnectionError"]
    ELSE IF ~Ok(h.status) THEN Remote(TRUE, "[]")
    ELSE CASE h.payload = "malformed" -> [exc |-> "ParseError"]
           [] h.payload = "empty" -> Remote(TRUE, "empty")
           [] OTHER -> Remote(FALSE, "content")

\* FAIRsharingRegistry._remote_collect with credentials configured
FAIRsharingRegistry_remote_collect(h) ==
    IF h.kind = "error" THEN [exc |-> "ConnectionError"]
    ELSE IF ~Ok(h.status) THEN Remote(TRUE, "[]")
    ELSE CASE h.payload = "malformed" -> [exc |-> "JSONDecodeError"]
           [] h.payload = "empty" -> Remote(TRUE, "[]")
           [] OTHER -> Remote(FALSE, "content")

\* GeoNames._remote_collect: no else branch for a response that is not ok
GeoNames_remote_collect(h) ==
    IF h.kind = "error" THEN [exc |-> "ConnectionError"]
    ELSE IF ~Ok(h.status) THEN Remote(FALSE, "[]")
    ELSE CASE h.payload = "malformed" -> Remote(TRUE, "[]")
           [] h.payload = "empty" -> Remote(TRUE, "[]")
           [] OTHER -> Remote(FALSE, "content")

_remote_collect(c, h) ==
    CASE c = "IANAMediaTypes" -> IANAMediaTypes_remote_collect(h)
      [] c = "FAIRsharingRegistry" -> FAIRsharingRegistry_remote_collect(h)
      [] OTHER -> GeoNames_remote_collect(h)

\* _local_collect: GeoNames inherits the one that raises
_local_collect(c) ==
    IF c = "GeoNames" THEN Raise("NotImplementedError") ELSE Return("cached")

\* how the remote attempt ended, as logged in events
RemoteEvent(h, r) ==
    IF h.kind = "response" /\ Ok(h.status) /\ h.payload = "content"
    THEN "remote:ok" ELSE "remote:failed"

\* VocabularyConnection.collect for connector c; requested tells whether
\* _remote_collect issues its request (FAIRsharingRegistry issues none
\* without username and password and reports no error)
BaseCollect(c, remote_check, requested, h) ==
    LET r == IF ~remote_check THEN Remote(FALSE, "[]")
             ELSE IF ~requested THEN Remote(FALSE, "[]")
             ELSE _remote_collect(c, h)
        ev == IF remote_check /\ requested THEN <<RemoteEvent(h, r)>> ELSE <<>>
    IN IF r.exc # None
       THEN [out |-> Raise(r.exc), events |-> ev]
       ELSE IF ~remote_check \/ r.error_on_request
       THEN [out |-> _local_collect(c), events |-> Append(ev, "local")]
       ELSE [out |-> Return(r.content), events |-> ev]

\* Agrovoc.collect(term): no return statement is reached when the term is
\* outside the vocabulary
Agrovoc_collect(path, t, h) ==
    IF path = <<>> \/ ~Contains(t.str, path) THEN Return("None")
    ELSE IF h.kind = "error" THEN Raise("ConnectionError")
    ELSE IF h.status # 200 THEN Return("False")
    ELSE CASE h.payload = "malformed" -> Raise("JSONDecodeError")
           [] h.payload = "empty" -> Return("False")
           [] OTHER -> Return("True")

\* ORCID.collect(term); wellformed is ut.check_orcid(term)
ORCID_collect(path, wellformed, h) ==
    IF path = <<>> \/ ~wellformed THEN Return("False")
    ELSE IF h.kind = "error" THEN Return("False")
    ELSE Return(IF h.status = 200 THEN "True" ELSE "False")

\* remote_path_with_query of FAIRsharingRegistry.collect and of
\* GeoNames.collect for the path found in _config_items
WithQuery(c, path, search_topic) ==
    IF c = "FAIRsharingRegistry"
    THEN path \o <<"?page[size]=2500&", "q=">> \o search_topic.str
    ELSE path \o <<"?geonameId=">> \o search_topic.str \o <<"&username=frames">>

\* the queries a path holds
Queries(path) ==
    Cardinality({i \in 1..Len(path) : path[i] \in {"q=", "?geonameId="}})

\* the value collect(search_topic) leaves in _config_items["remote_path"]
TopicPath(c, path, search_topic) ==
    IF c \in TopicConnectors /\ path # <<>> THEN WithQuery(c, path, search_topic)
    ELSE path

\* the Location of the portal's search page
SearchUrl == Str(<<"search">>)

\* the PIC numbers registered at the portal
ExistingPICs == {Str(<<"v", "1">>)}

\* what the portal can answer to a HEAD request for url: it redirects to
\* its search page when the PIC number in the URL does not exist, and only
\* then; a URL without a PIC number gets whatever the portal has for it
PortalOutcomes(url) ==
    LET asked == {t \in TermPool : Contains(url, t.str)}
        locations == IF asked = {} THEN {NoValue, LocationUrl, SearchUrl}
                     ELSE IF asked \subseteq ExistingPICs THEN {NoValue, LocationUrl}
                     ELSE {SearchUrl}
    IN {[kind |-> "error"]} \cup
       {Response(s, l, "empty") : s \in {200, 302}, l \in locations}

\* 'not "search" in response.headers.get("Location", "")'
NoSearchRedirect(h) ==
    IF h.location = NoValue THEN TRUE ELSE ~Contains(h.location.str, <<"search">>)

\* PIC.collect(term): the request goes to remote_path as configured; the
\* PIC number taken from the term is not used
PIC_collect(path, t, h) ==
    IF path = <<>> THEN Return("False")
    ELSE IF h.kind = "error" THEN Return("False")
    ELSE Return(IF NoSearchRedirect(h) THEN "True" ELSE "False")

\* the value status_code holds before the first request
InitialStatus == 350

\* the loop with no bound on its iterations
RedirectPending_Capped(code) == code > 300 /\ code < 400 /\ requests_made < MaxRequests

\* the test of the while loop of RoR, Coar and LibraryOfCongress
RedirectPending(code) == code > 300 /\ code < 400

\* the test after the loop taking every status but 404 for a success
RedirectResult_NotFound(code) == code # 404

\* the test after the loop
RedirectResult(code) == code = 200

InitConnectors ==
    /\ plugin_metadata = <<>>
    /\ plugin_terms_map = <<>>
    /\ config_term_list = <<>>
    /\ self_validate = FALSE
    /\ config_cvs = NoCvs
    /\ registry = NoRegistry
    /\ outcome = Idle
    /\ seen = 0
    /\ previous = [outcome |-> Idle, seen |-> 0]
    /\ IndicatorsAtRest
    /\ RoutinesAtRest
    /\ ServicesAtRest
    /\ vocabulary \in ConnectorPool
    /\ enable_remote_check \in BOOLEAN
    /\ remote_path \in {<<>>, ConfiguredPath}
    /\ server \in {"any", "every3xx", "redirecting"}
    /\ pc = "idle"
    /\ term = NoValue
    /\ status_code = 0
    /\ requests_made = 0
    /\ events = <<>>
    /\ collected = Idle

\* the call ends
Finish(out) ==
    /\ pc' = "done"
    /\ collected' = out

\* the request counter after one more request
CountRequest(n) == Min(n + 1, MaxRequests)

\* collect() of a connector built on VocabularyConnection.collect
CollectBase ==
    /\ pc = "idle"
    /\ vocabulary \in BasePattern
    /\ \E h \in HttpOutcomes(server), credentials \in BOOLEAN, search_topic \in TermPool :
          LET requested == vocabulary # "FAIRsharingRegistry" \/ credentials
              r == BaseCollect(vocabulary, enable_remote_check, requested, h)
          IN /\ Finish(r.out)
             /\ events' = r.events
             /\ requests_made' = IF enable_remote_check /\ requested THEN 1 ELSE 0
             /\ term' = IF vocabulary \in TopicConnectors THEN search_topic ELSE term
             /\ remote_path' = TopicPath(vocabulary, remote_path, search_topic)
    /\ UNCHANGED <<vocabulary, enable_remote_check, server, status_code>>
    /\ UNCHANGED <<wrapperVars, indicatorVars, routineVars, serviceVars>>

\* Agrovoc.collect(term)
CollectAgrovoc ==
    /\ pc = "idle"
    /\ vocabulary = "Agrovoc"
    /\ \E t \in TermPool, h \in HttpOutcomes(server) :
          /\ term' = t
          /\ Finish(Agrovoc_collect(remote_path, t, h))
          /\ requests_made' =
                 IF remote_path # <<>> /\ Contains(t.str, remote_path) THEN 1 ELSE 0
    /\ UNCHANGED <<vocabulary, enable_remote_check, remote_path, server, status_code, events>>
    /\ UNCHANGED <<wrapperVars, indicatorVars, routineVars, serviceVars>>

\* ORCID.collect(term)
CollectORCID ==
    /\ pc = "idle"
    /\ vocabulary = "ORCID"
    /\ \E t \in TermPool, wellformed \in BOOLEAN, h \in HttpOutcomes(server) :
          /\ term' = t
          /\ Finish(ORCID_collect(remote_path, wellformed, h))
          /\ requests_made' = IF remote_path # <<>> /\ wellformed THEN 1 ELSE 0
    /\ UNCHANGED <<vocabulary, enable_remote_check, remote_path, server, status_code, events>>
    /\ UNCHANGED <<wrapperVars, indicatorVars, routineVars, serviceVars>>

\* PIC.collect(term)
CollectPIC ==
    /\ pc = "idle"
    /\ vocabulary = "PIC"
    /\ \E t \in TermPool, h \in PortalOutcomes(remote_path) :
          /\ term' = t
          /\ Finish(PIC_collect(remote_path, t, h))
          /\ requests_made' = IF remote_path # <<>> THEN 1 ELSE 0
          /\ events' = IF remote_path # <<>> THEN <<h.kind>> ELSE <<>>
    /\ UNCHANGED <<vocabulary, enable_remote_check, remote_path, server, status_code>>
    /\ UNCHANGED <<wrapperVars, indicatorVars, routineVars, serviceVars>>

\* _validate_any_vocabulary goes on to its next value and calls collect on
\* the same instance again.  Only the topic connectors keep something from
\* one call to the next, so only their further calls are followed.
NextValue ==
    /\ pc = "done"
    /\ vocabulary \in TopicConnectors
    /\ Queries(remote_path) < MaxCalls
    /\ pc' = "idle"
    /\ term' = NoValue
    /\ requests_made' = 0
    /\ events' = <<>>
    /\ collected' = Idle
    /\ UNCHANGED <<vocabulary, enable_remote_check, remote_path, server, status_code>>
    /\ UNCHANGED <<wrapperVars, indicatorVars, routineVars, serviceVars>>

\* collect(term) of a redirect-following connector, up to the loop
CollectRedirect ==
    /\ pc = "idle"
    /\ vocabulary \in RedirectFollowing
    /\ \E t \in TermPool :
          /\ term' = t
          /\ IF remote_path = <<>> \/ ~Contains(t.str, remote_path)
             THEN Finish(Return("False")) /\ UNCHANGED status_code
             ELSE pc' = "loop" /\ status_code' = InitialStatus /\ UNCHANGED collected
    /\ UNCHANGED <<vocabulary, enable_remote_check, remote_path, server, requests_made, events>>
    /\ UNCHANGED <<wrapperVars, indicatorVars, routineVars, serviceVars>>

\* one iteration of the loop: requests.head(term), then term and
\* status_code are taken from the response.  requests raises on a term that
\* is None and on a connection error.
HeadRequest ==
    /\ pc = "loop"
    /\ RedirectPending(status_code)
    /\ \E h \in HttpOutcomes(server) :
          IF term = NoValue
          THEN Finish(Raise("MissingSchema")) /\ UNCHANGED <<term, status_code, requests_made>>
          ELSE IF h.kind = "error"
          THEN /\ Finish(Raise("ConnectionError"))
               /\ requests_made' = CountRequest(requests_made)
               /\ UNCHANGED <<term, status_code>>
          ELSE /\ term' = h.location
               /\ status_code' = h.status
               /\ requests_made' = CountRequest(requests_made)
               /\ UNCHANGED <<pc, collected>>
    /\ UNCHANGED <<vocabulary, enable_remote_check, remote_path, server, events>>
    /\ UNCHANGED <<wrapperVars, indicatorVars, routineVars, serviceVars>>

\* the loop is left and the status decides the result
RedirectReturn ==
    /\ pc = "loop"
    /\ ~RedirectPending(status_code)
    /\ Finish(Return(IF RedirectResult(status_code) THEN "True" ELSE "False"))
    /\ UNCHANGED <<vocabulary, enable_remote_check, remote_path, server, term,
                   status_code, requests_made, events>>
    /\ UNCHANGED <<wrapperVars, indicatorVars, routineVars, serviceVars>>

NextConnectors ==
    \/ CollectBase
    \/ CollectAgrovoc
    \/ CollectORCID
    \/ CollectPIC
    \/ NextValue
    \/ CollectRedirect
    \/ HeadRequest
    \/ RedirectReturn

SpecConnectors == InitConnectors /\ [][NextConnectors]_vars

(***************************************************************************)
(* rda_all (fair_eva/api/rda.py): every indicator of the API description   *)
(***************************************************************************)

\* one entry of documents["paths"]: the indicator code is the last part of
\* the path; kind tells whether x-indicator or x-data_test is set
PathEntry(code, principle, level, kind) ==
    [code |-> code, principle |-> principle, level |-> level, kind |-> kind]

PathsPool ==
    LET f == PathEntry("rda_f1_01m", "Findable", "Essential", "indicator")
        a == PathEntry("rda_a1_01m", "Accessible", "Important", "indicator")
        i == PathEntry("rda_i1_01m", "Interoperable", "Important", "indicator")
        r == PathEntry("rda_r1_01m", "Reusable", "Essential", "indicator")
        d == PathEntry("data_01", "Data", "Useful", "data_test")
    IN {<<f>>, <<f, a>>, <<f, i, r>>, <<a, d, r>>}

\* what getattr(eva, indi_code)() does: returns points or raises
IndicatorOutcomes == {Result(Pts(0), "msg"), Result(Pts(100), "msg"), Raise("Exception")}

\* the group chosen by the chain 'if "Findable" in x_principle ... elif'
GroupOf(principle) ==
    CASE principle = "Findable" -> "findable"
      [] principle = "Accessible" -> "accessible"
      [] principle = "Interoperable" -> "interoperable"
      [] principle = "Reusable" -> "reusable"
      [] OTHER -> None

\* the entry recorded for an indicator that returned
GroupEntry(indi_code, points, weight) ==
    [name |-> indi_code, error |-> FALSE, points |-> points, weight |-> weight]

InitAll ==
    /\ api_config_found \in BOOLEAN
    /\ paths \in PathsPool
    /\ all_pc = "idle"
    /\ all_next = 1
    /\ x_principle = ""
    /\ all_points = NoValue
    /\ groups = NoGroups
    /\ all_response = Idle
    /\ plugin_metadata = <<>>
    /\ plugin_terms_map = <<>>
    /\ config_term_list = <<>>
    /\ self_validate = FALSE
    /\ config_cvs = NoCvs
    /\ registry = NoRegistry
    /\ outcome = Idle
    /\ seen = 0
    /\ previous = [outcome |-> Idle, seen |-> 0]
    /\ IndicatorsAtRest
    /\ RoutinesAtRest
    /\ ConnectorsAtRest
    /\ GbifAtRest
    /\ RestAtRest

AllFrame ==
    UNCHANGED <<wrapperVars, indicatorVars, routineVars, connectorVars, gbifVars, restVars>>

\* lines 1345-1367: the locals are initialised and the description loaded
LoadConfig ==
    /\ all_pc = "idle"
    /\ IF api_config_found
       THEN /\ all_pc' = "loop"
            /\ all_response' = all_response
       ELSE /\ all_pc' = "returned"
            /\ all_response' = [kind |-> "response", code |-> 500, body |-> "error"]
    /\ UNCHANGED <<api_config_found, paths, all_next, x_principle, all_points, groups>>
    /\ AllFrame

\* the indicator branch of one iteration (lines 1371-1445) with its handler
\* (lines 1476-1541).  The handler's 'except Exception as e' rebinds the
\* loop variable e to the exception, and x_principle and points still hold
\* what the previous iteration left.
IndicatorIteration(e, out) ==
    IF out.kind = "result"
    THEN /\ all_points' = out.points
         /\ x_principle' = e.principle
         /\ groups' = IF GroupOf(e.principle) = None THEN groups
                      ELSE [groups EXCEPT ![GroupOf(e.principle)] =
                               DictUpdate(@, e.code,
                                          GroupEntry(e.code, out.points, e.level))]
         /\ all_next' = all_next + 1
         /\ UNCHANGED <<all_pc, all_response>>
    ELSE IF GroupOf(x_principle) = None
    THEN /\ all_next' = all_next + 1
         /\ UNCHANGED <<all_pc, all_response, all_points, x_principle, groups>>
    ELSE \* documents["paths"][e]["x-level"] with e bound to the exception
         /\ all_pc' = "raised"
         /\ all_response' = Raise("KeyError")
         /\ UNCHANGED <<all_next, all_points, x_principle, groups>>

\* the data-test branch of one iteration (lines 1446-1475): its own try
\* statement logs a failure and goes on
DataTestIteration(e, out) ==
    /\ IF out.kind = "result"
       THEN /\ all_points' = out.points
            /\ x_principle' = e.principle
            /\ groups' = IF e.principle = "Data"
                         THEN [groups EXCEPT !["data_test"] =
                                  DictUpdate(@, e.code,
                                             GroupEntry(e.code, out.points, e.level))]
                         ELSE groups
       ELSE UNCHANGED <<all_points, x_principle, groups>>
    /\ all_next' = all_next + 1
    /\ UNCHANGED <<all_pc, all_response>>

\* one iteration of 'for e in documents["paths"]'
Iterate ==
    /\ all_pc = "loop"
    /\ all_next <= Len(paths)
    /\ \E out \in IndicatorOutcomes :
          IF paths[all_next].kind = "indicator"
          THEN IndicatorIteration(paths[all_next], out)
          ELSE DataTestIteration(paths[all_next], out)
    /\ UNCHANGED <<api_config_found, paths>>
    /\ AllFrame

\* lines 1543-1561: the result is put together and returned with 200
ReturnAll ==
    /\ all_pc = "loop"
    /\ all_next > Len(paths)
    /\ all_pc' = "returned"
    /\ all_response' =
          [kind |-> "response", code |-> 200,
           body |-> IF groups["data_test"] # EmptyDict THEN groups
                    ELSE [g \in DOMAIN groups \ {"data_test"} |-> groups[g]]]
    /\ UNCHANGED <<api_config_found, paths, all_next, x_principle, all_points, groups>>
    /\ AllFrame

NextAll == LoadConfig \/ Iterate \/ ReturnAll

SpecAll == InitAll /\ [][NextAll]_vars

(***************************************************************************)
(* gbif_download_request (plugins/gbif/gbif_data.py): the download request *)
(* and the loop polling its status.  Times are in seconds.                 *)
(***************************************************************************)

\* the pause between two polls, in seconds
PollPeriod == 10

\* the time the call is followed for when no timeout applies
MaxElapsed == 80

\* the argument timeout, in minutes; the default of gbif_doi_download is -1
TimeoutPool == {-1, 1}

\* how long one status request can take
PollDurations == {0, PollPeriod, 2 * PollPeriod}

\* the status a poll can report
DownloadStatusPool == {"PREPARING", "RUNNING", "SUCCEEDED", "FAILED"}

\* the test of the polling loop
Pending(st) == st \in {"PREPARING", "RUNNING"}

\* the argument of time.sleep after a poll that took 'taken' seconds
SleepLength(taken) == PollPeriod - taken

InitGbif ==
    /\ timeout \in TimeoutPool
    /\ download_key_ok \in BOOLEAN
    /\ gbif_pc = "idle"
    /\ gbif_status = "PREPARING"
    /\ elapsed = 0
    /\ download_request = NoValue
    /\ gbif_result = Idle
    /\ plugin_metadata = <<>>
    /\ plugin_terms_map = <<>>
    /\ config_term_list = <<>>
    /\ self_validate = FALSE
    /\ config_cvs = NoCvs
    /\ registry = NoRegistry
    /\ outcome = Idle
    /\ seen = 0
    /\ previous = [outcome |-> Idle, seen |-> 0]
    /\ IndicatorsAtRest
    /\ RoutinesAtRest
    /\ ConnectorsAtRest
    /\ AllAtRest
    /\ RestAtRest

GbifFrame ==
    UNCHANGED <<wrapperVars, indicatorVars, routineVars, connectorVars, allVars, restVars>>

\* lines 69-96: the timeout is converted to seconds, the download key is
\* requested, status and t0 are set
RequestDownload ==
    /\ gbif_pc = "idle"
    /\ timeout' = timeout * 60
    /\ gbif_pc' = "loop"
    /\ gbif_status' = "PREPARING"
    /\ elapsed' = 0
    /\ UNCHANGED <<download_key_ok, download_request, gbif_result>>
    /\ GbifFrame

\* one iteration of the polling loop (lines 97-118).  Without a download
\* key the address polled is that of no download and the answer holds no
\* status.
Poll ==
    /\ gbif_pc = "loop"
    /\ Pending(gbif_status)
    /\ elapsed < MaxElapsed
    /\ \E taken \in PollDurations, reported \in DownloadStatusPool :
          IF ~download_key_ok
          THEN /\ gbif_pc' = "done"
               /\ gbif_result' = Raise("KeyError")
               /\ elapsed' = elapsed + taken
               /\ UNCHANGED <<gbif_status, download_request>>
          ELSE /\ download_request' = Str(<<reported>>)
               /\ IF reported = "SUCCEEDED"
                  THEN /\ gbif_status' = reported
                       /\ elapsed' = elapsed + taken
                       /\ UNCHANGED <<gbif_pc, gbif_result>>
                  ELSE IF timeout > 0 /\ elapsed + taken >= timeout
                  THEN /\ gbif_status' = "TIMEOUT"
                       /\ elapsed' = elapsed + taken
                       /\ UNCHANGED <<gbif_pc, gbif_result>>
                  ELSE IF SleepLength(taken) < 0
                  THEN /\ gbif_pc' = "done"
                       /\ gbif_result' = Raise("ValueError")
                       /\ gbif_status' = reported
                       /\ elapsed' = elapsed + taken
                  ELSE /\ gbif_status' = reported
                       /\ elapsed' = elapsed + taken + SleepLength(taken)
                       /\ UNCHANGED <<gbif_pc, gbif_result>>
    /\ UNCHANGED <<timeout, download_key_ok>>
    /\ GbifFrame

\* line 121: return download_request
ReturnDownload ==
    /\ gbif_pc = "loop"
    /\ ~Pending(gbif_status)
    /\ gbif_pc' = "done"
    /\ gbif_result' = [kind |-> "return", value |-> download_request]
    /\ UNCHANGED <<timeout, download_key_ok, gbif_status, elapsed, download_request>>
    /\ GbifFrame

NextGbif == RequestDownload \/ Poll \/ ReturnDownload

SpecGbif == InitGbif /\ [][NextGbif]_vars

(***************************************************************************)
(* get_metadata_api of the digital_csic plugin: the item is looked up by   *)
(* its identifier, then its metadata and its files are requested, each     *)
(* request in a loop of MAX_RETRIES iterations.                            *)
(*                                                                         *)
(* An answer is [status, body]; the body is "list" (a JSON list of         *)
(* entries), "empty" (the text "[]"), "object" (a JSON object, as error    *)
(* answers carry) or "malformed" (not JSON).  Answers with a status other  *)
(* than 200 carry no JSON list.                                            *)
(***************************************************************************)

MAX_RETRIES == 5

\* the answers a request can get; "timeout" stands for an exception of
\* requests (timeout=15, connection errors)
AnswerPool ==
    {[status |-> 200, body |-> b] : b \in {"list", "empty", "malformed"}}
    \cup {[status |-> 500, body |-> b] : b \in {"object", "malformed"}}
    \cup {[status |-> -1, body |-> "timeout"]}

\* the request loops, in program order
RequestLoops == {"find", "find_doi", "metadata", "bitstreams"}

\* a loop that goes through all its iterations whatever the answers
LoopDone_NoBreak(n, answer) == n = MAX_RETRIES

\* 'for _ in range(MAX_RETRIES)' with 'if r.status_code == 200: break':
\* the loop is over after n iterations with the last answer 'answer'
LoopDone(n, answer) == n = MAX_RETRIES \/ (n > 0 /\ answer.status = 200)

\* what the except branch returns: metadata = [], file_list = []
EmptyResult == [kind |-> "return", metadata |-> "[]", file_list |-> "[]"]

\* 'for e in r.json()' building rows from the entries: TRUE when every
\* step of it works
Parses(answer) == answer.body \in {"list", "empty"}

\* the frame built from the entries of an answer
Frame(answer) == IF answer.body = "list" THEN "rows" ELSE "no rows"

InitRest ==
    /\ item_type \in {"doi", "handle", "other"}
    /\ rest_pc = "idle"
    /\ tries = 0
    /\ rest_r = NoAnswer
    /\ succeeded = {}
    /\ item_id = NoValue
    /\ rest_metadata = NoValue
    /\ rest_result = Idle
    /\ plugin_metadata = <<>>
    /\ plugin_terms_map = <<>>
    /\ config_term_list = <<>>
    /\ self_validate = FALSE
    /\ config_cvs = NoCvs
    /\ registry = NoRegistry
    /\ outcome = Idle
    /\ seen = 0
    /\ previous = [outcome |-> Idle, seen |-> 0]
    /\ IndicatorsAtRest
    /\ RoutinesAtRest
    /\ ConnectorsAtRest
    /\ AllAtRest
    /\ GbifAtRest

RestFrame ==
    UNCHANGED <<wrapperVars, indicatorVars, routineVars, connectorVars, allVars, gbifVars>>

\* the except branch (lines 370-377)
Fail ==
    /\ rest_pc' = "done"
    /\ rest_result' = EmptyResult

\* lines 287-301: md_key is bound for the two known identifier types only;
\* reading it unbound raises inside the try statement
StartRest ==
    /\ rest_pc = "idle"
    /\ IF item_type \in {"doi", "handle"}
       THEN /\ rest_pc' = "find"
            /\ UNCHANGED rest_result
       ELSE Fail
    /\ UNCHANGED <<item_type, tries, rest_r, succeeded, item_id, rest_metadata>>
    /\ RestFrame

\* one iteration of the request loop the call is in
Attempt ==
    /\ rest_pc \in RequestLoops
    /\ ~LoopDone(tries, rest_r)
    /\ \E answer \in AnswerPool :
          IF answer.body = "timeout"
          THEN /\ Fail
               /\ tries' = tries + 1
               /\ UNCHANGED <<rest_r, succeeded>>
          ELSE /\ rest_r' = answer
               /\ tries' = tries + 1
               /\ succeeded' = IF answer.status = 200 THEN succeeded \cup {rest_pc}
                               ELSE succeeded
               /\ UNCHANGED <<rest_pc, rest_result>>
    /\ UNCHANGED <<item_type, item_id, rest_metadata>>
    /\ RestFrame

\* lines 326-351 for the answer in r: the entries become the metadata
\* frame, then the address of the files is built from item_id
ParseMetadata ==
    IF Parses(rest_r) /\ item_id' # NoValue
    THEN /\ rest_metadata' = Frame(rest_r)
         /\ rest_pc' = "bitstreams"
         /\ tries' = 0
         /\ UNCHANGED rest_result
    ELSE /\ Fail
         /\ UNCHANGED <<rest_metadata, tries>>

\* lines 311-325 after the look-up: the item id is read from a 200 answer
\* and the metadata loop entered; any other answer is logged and parsed
ResolveItem ==
    IF rest_r.status = 200
    THEN IF rest_r.body = "list"
         THEN /\ item_id' = Str(<<"id">>)
              /\ rest_pc' = "metadata"
              /\ tries' = 0
              /\ UNCHANGED <<rest_metadata, rest_result>>
         ELSE /\ Fail
              /\ UNCHANGED <<item_id, rest_metadata, tries>>
    ELSE /\ item_id' = item_id
         /\ ParseMetadata

\* the first look-up loop is over (line 310): an empty list leads to the
\* look-up with the normalized DOI
LeaveFind ==
    /\ rest_pc = "find"
    /\ LoopDone(tries, rest_r)
    /\ IF rest_r.body = "empty"
       THEN /\ rest_pc' = "find_doi"
            /\ tries' = 0
            /\ UNCHANGED <<item_id, rest_metadata, rest_result>>
       ELSE ResolveItem
    /\ UNCHANGED <<item_type, rest_r, succeeded>>
    /\ RestFrame

\* the second look-up loop is over
LeaveFindDoi ==
    /\ rest_pc = "find_doi"
    /\ LoopDone(tries, rest_r)
    /\ ResolveItem
    /\ UNCHANGED <<item_type, rest_r, succeeded>>
    /\ RestFrame

\* the metadata loop is over
LeaveMetadata ==
    /\ rest_pc = "metadata"
    /\ LoopDone(tries, rest_r)
    /\ item_id' = item_id
    /\ ParseMetadata
    /\ UNCHANGED <<item_type, rest_r, succeeded>>
    /\ RestFrame

\* the files loop is over (lines 357-369, 378): the entries become the
\* file list and both frames are returned
LeaveBitstreams ==
    /\ rest_pc = "bitstreams"
    /\ LoopDone(tries, rest_r)
    /\ IF Parses(rest_r)
       THEN /\ rest_pc' = "done"
            /\ rest_result' = [kind |-> "return", metadata |-> rest_metadata,
                               file_list |-> Frame(rest_r)]
       ELSE Fail
    /\ UNCHANGED <<item_type, tries, rest_r, succeeded, item_id, rest_metadata>>
    /\ RestFrame

NextRest ==
    \/ StartRest
    \/ Attempt
    \/ LeaveFind
    \/ LeaveFindDoi
    \/ LeaveMetadata
    \/ LeaveBitstreams

SpecRest == InitRest /\ [][NextRest]_vars

(***************************************************************************)
(* Properties                                                              *)
(***************************************************************************)

\* the metadata rows the last wrapper call worked on
EvaluatedMetadata == SubSeq(plugin_metadata, 1, seen)

\* the requested canonical terms that have an entry in terms_map
ResolvedTerms == Range(config_term_list) \cap DictKeys(plugin_terms_map)

\* the concrete fields configured for a resolved term
FieldsOfTerm(t) == Range(DictGet(plugin_terms_map, t, None).fields)

\* row r matches field f: same element, same qualifier (empty with empty)
RowMatches(r, f) == r.element = f.element /\ r.qualifier = f.qualifier

NoTermConfigured == ResolvedTerms = {}

NoRowMatches ==
    \A t \in ResolvedTerms : \A f \in FieldsOfTerm(t) :
        \A i \in 1..Len(EvaluatedMetadata) : ~RowMatches(EvaluatedMetadata[i], f)

\* C1: when no requested term has an entry in terms_map, or no metadata row
\* matches a resolved field, the wrapper returns (0, message) without raising
\* and without calling the wrapped function; in the first case the message
\* is the "not defined in configuration" one.
C1_NoMetadataReturnsZero ==
    (outcome.kind # "idle" /\ (NoTermConfigured \/ NoRowMatches)) =>
        /\ outcome.kind = "return"
        /\ outcome.points.num = 0
        /\ NoTermConfigured => outcome.msg = MsgNotDefined

C1_Witness ==
    /\ outcome.kind = "return"
    /\ ~NoTermConfigured
    /\ NoRowMatches
    /\ seen > 0
    /\ outcome.msg = MsgNoMetadata

\* the arguments injected by the last call, when the wrapped function ran
InjectedTerms == IF outcome.kind = "call" THEN DOMAIN outcome.kwargs ELSE {}

\* the value list injected for term t
InjectedValues(t) ==
    IF self_validate THEN outcome.kwargs[t].values ELSE outcome.kwargs[t]

\* C2: with validate=True the validation stored under every term K is the
\* result of validating the values of K with the category K.
C2_ValidatedWithOwnCategory ==
    (outcome.kind = "call" /\ self_validate) =>
        \A K \in InjectedTerms :
            outcome.kwargs[K].validation =
                (IF outcome.kwargs[K].values = <<>> THEN EmptyDict
                 ELSE validate(outcome.kwargs[K].values, K, config_cvs, registry).data)

\* the text values of the evaluated rows that match field f
MatchingValues(f) ==
    LET keep(r) == RowMatches(r, f)
        rows == SelectSeq(EvaluatedMetadata, keep)
    IN [i \in 1..Len(rows) |-> rows[i].text_value]

FieldHasRows(f) == MatchingValues(f) # <<>>

\* the fields of term t in entry-list order
FieldSeqOfTerm(t) == DictGet(plugin_terms_map, t, None).fields

\* the homogenized values of the fields of t that have rows
ExpectedValues(t) ==
    FlattenSeq([i \in 1..Len(FieldSeqOfTerm(t)) |->
                   gather(MatchingValues(FieldSeqOfTerm(t)[i]), t)])

Count(seq, x) == Cardinality({i \in 1..Len(seq) : seq[i] = x})

SameBag(a, b) ==
    /\ Len(a) = Len(b)
    /\ \A x \in Range(a) \cup Range(b) : Count(a, x) = Count(b, x)

\* C3: for a term with at least one field that has a matching row, the
\* injected value list is non-empty and holds exactly the homogenized values
\* of the fields that have rows, each once.
C3_ValuesOfPresentFields ==
    outcome.kind = "call" =>
        \A t \in ResolvedTerms :
            (\E f \in FieldsOfTerm(t) : FieldHasRows(f)) =>
                /\ InjectedValues(t) # <<>>
                /\ SameBag(InjectedValues(t), ExpectedValues(t))

\* the rows the wrapper works on after its row check
FilteredMetadata ==
    check_metadata_terms_with_values(EvaluatedMetadata,
        ConfiguredFields(plugin_terms_map, config_term_list))

\* the homogenized value list the wrapper obtains for field i of term t
PassValues(t, i) == gather(SelectValues(FilteredMetadata, FieldSeqOfTerm(t)[i]), t)

\* the validation dictionary the wrapper obtains for field i of term t
PassValidation(t, i) ==
    IF PassValues(t, i) = <<>> THEN EmptyDict
    ELSE validate(PassValues(t, i), config_term_list[Len(config_term_list)],
                  config_cvs, registry).data

RECURSIVE MergedValidation(_, _)
\* the per-field validation dictionaries of fields 1..n merged, a later
\* field overwriting an earlier one on the same vocabulary id
MergedValidation(t, n) ==
    IF n = 0 THEN EmptyDict
    ELSE PassValidation(t, n) @@ MergedValidation(t, n - 1)

\* C4: with validate=True the payload of a term with several fields has as
\* values the concatenation of the value lists of all its fields and as
\* validation the merge of the per-field validation dictionaries, the most
\* recently processed field winning on a shared vocabulary id.
C4_MergedPayload ==
    (outcome.kind = "call" /\ self_validate) =>
        \A t \in ResolvedTerms :
            Len(FieldSeqOfTerm(t)) > 1 =>
                /\ SameBag(outcome.kwargs[t].values,
                           FlattenSeq([i \in 1..Len(FieldSeqOfTerm(t)) |-> PassValues(t, i)]))
                /\ outcome.kwargs[t].validation =
                       MergedValidation(t, Len(FieldSeqOfTerm(t)))

\* the requested terms whose injected value list is non-empty
TermsWithValues ==
    {t \in Range(config_term_list) \cap InjectedTerms : InjectedValues(t) # <<>>}

\* C5: the injected points equal 100 * (requested terms with a non-empty
\* resolved value list) / (requested terms).
C5_PointsFormula ==
    outcome.kind = "call" =>
        outcome.points.num * Cardinality(Range(config_term_list)) =
            100 * Cardinality(TermsWithValues) * outcome.points.den

\* C6: the wrapped function is never called with a requested term absent
\* from the injected arguments.
C6_NoTermSilentlyAbsent ==
    outcome.kind = "call" => Range(config_term_list) \subseteq InjectedTerms

\* some field of a requested term has raw values that homogenize to nothing
FaultyField ==
    \E t \in ResolvedTerms : \E i \in 1..Len(FieldSeqOfTerm(t)) :
        /\ SelectValues(FilteredMetadata, FieldSeqOfTerm(t)[i]) # <<>>
        /\ PassValues(t, i) = <<>>

\* C7: when gather returns an empty list for a field that had a raw value,
\* the wrapper raises instead of returning a score.
C7_EmptyHomogenizationRaises ==
    (outcome.kind # "idle" /\ FaultyField) =>
        /\ outcome.kind = "raise"
        /\ ~self_validate => outcome.exc = HomogenizationFault

C7_Witness ==
    /\ FaultyField
    /\ outcome.kind = "raise"
    /\ outcome.exc = HomogenizationFault

\* C8: the only exception that leaves the wrapper is the homogenization
\* fault.
C8_OnlyHomogenizationFaultEscapes ==
    outcome.kind = "raise" => outcome.exc = HomogenizationFault

\* C9: in every validation result and for every vocabulary id, each checked
\* value is in exactly one of the lists valid and non_valid.
C9_ValidationPartitions ==
    (outcome.kind = "call" /\ self_validate) =>
        \A t \in InjectedTerms : \A id \in DOMAIN outcome.kwargs[t].validation :
            \A v \in Range(outcome.kwargs[t].values) :
                (v \in Range(outcome.kwargs[t].validation[id].valid))
                    # (v \in Range(outcome.kwargs[t].validation[id].non_valid))

\* the outcomes that carry a score: the early return (0, msg) and the call
\* of the wrapped function with the injected points
HasScore(oc) == oc.kind \in {"return", "call"}

\* a/b >= c/d for the fractions kept in points
ScoreGE(p, q) == p.num * q.den >= q.num * p.den

\* the rows added between the last two wrapper calls
AddedRows == SubSeq(plugin_metadata, previous.seen + 1, seen)

\* term t was requested and resolved but had no value in outcome oc
UnresolvedIn(oc, t) ==
    /\ t \in ResolvedTerms
    /\ \/ oc.kind = "return"
       \/ /\ oc.kind = "call"
          /\ (IF self_validate THEN oc.kwargs[t].values ELSE oc.kwargs[t]) = <<>>

\* every added row matches a field of a term that was unresolved before
AddedRowsMatchUnresolved ==
    /\ AddedRows # <<>>
    /\ \A i \in 1..Len(AddedRows) :
          \E t \in ResolvedTerms :
             /\ UnresolvedIn(previous.outcome, t)
             /\ \E f \in FieldsOfTerm(t) : RowMatches(AddedRows[i], f)

\* C10: adding rows that match a previously unresolved requested term never
\* decreases the score for the same term_id, and the score never exceeds 100.
C10_ScoreMonotone ==
    /\ HasScore(outcome) => ScoreGE([num |-> 100, den |-> 1], outcome.points)
    /\ (HasScore(previous.outcome) /\ HasScore(outcome) /\ AddedRowsMatchUnresolved) =>
            ScoreGE(outcome.points, previous.outcome.points)

C10_Witness ==
    /\ previous.outcome.kind = "call"
    /\ outcome.kind = "call"
    /\ AddedRowsMatchUnresolved
    /\ ~ScoreGE(previous.outcome.points, outcome.points)

(***************************************************************************)
(* Properties of the indicator methods and their API functions             *)
(***************************************************************************)

\* an indicator method was called and an exception left it
IndicatorRaised == indicator.kind = "called" /\ indicator.out.kind = "raise"

\* C11: every indicator method returns a (points, message) pair and lets
\* no exception escape, also when the list it scores is empty.
C11_IndicatorsAlwaysReturn ==
    indicator.kind = "called" => indicator.out.kind = "result"

\* C12: when the indicator method raises, its API function returns a
\* result named "ERROR" with an error status code instead of letting an
\* exception propagate.
C12_ApiFunctionCatches ==
    IndicatorRaised =>
        /\ api_result.kind = "response"
        /\ api_result.name = "ERROR"
        /\ api_result.exit_code # 200

(***************************************************************************)
(* Properties of gather and validate                                       *)
(***************************************************************************)

\* the controlled_vocabularies setting has no entry for the category of
\* the call
NoVocabularyConfigured ==
    /\ config_cvs.defined
    /\ DictGet(config_cvs.map, element, <<>>) = <<>>

\* C13: validate returns an empty result and raises no error whenever no
\* controlled vocabulary is configured for the category, whichever the
\* category.
C13_NoVocabularyEmptyResult ==
    (validated # Idle /\ NoVocabularyConfigured) =>
        /\ validated.result.exc = None
        /\ DOMAIN validated.result.data = {}

\* C14: for a category without extraction routine gather returns the list
\* of all raw input values in input order.
C14_FallbackReturnsAllValues ==
    (gathered # Idle /\ element \notin GatherCategories) =>
        gathered.values = StrList(element_values)

\* the routine of the category raises on the values of the call
RoutineRaises ==
    /\ cls = "MetadataValuesBase"
    /\ element \in BaseRaisingCategories
    /\ element_values # <<>>

\* C15: gather always returns; when the category routine raises, the list
\* returned is the unchanged list of input values.
C15_RoutineFaultKeepsInput ==
    /\ gathered.kind \in {"idle", "list"}
    /\ (gathered # Idle /\ RoutineRaises) => gathered.values = StrList(element_values)

BaseCallEnded == vocabulary \in BasePattern /\ pc = "done"

\* the events of the call that are remote attempts
RemoteAttempts == {i \in 1..Len(events) : events[i] # "local"}

\* the local cache was read
LocalRead == \E i \in 1..Len(events) : events[i] = "local"

\* the remote attempt failed: request error, unsuccessful or unusable
\* response
RemoteFailed == \E i \in 1..Len(events) : events[i] = "remote:failed"

\* C17: with remote checking enabled collect attempts the remote call
\* first; the local cache is read if and only if remote checking is
\* disabled or the remote attempt failed.
C17_RemoteFirstLocalOnFailure ==
    BaseCallEnded =>
        /\ enable_remote_check => (events # <<>> /\ events[1] # "local")
        /\ LocalRead <=> (~enable_remote_check \/ RemoteFailed)

\* the exceptions requests raises for a request that cannot be completed
RequestExceptions == {"ConnectionError", "MissingSchema"}

\* C18: no exception of the HTTP or SPARQL call reaches the caller of
\* collect: a failed request ends in False or empty content.
C18_NoRequestExceptionEscapes ==
    (pc = "done" /\ collected.kind = "raise") => collected.exc \notin RequestExceptions

\* a collect call of a redirect-following connector returned after at
\* least one HEAD request
RedirectCallReturned ==
    /\ vocabulary \in RedirectFollowing
    /\ pc = "done"
    /\ collected.kind = "return"
    /\ requests_made > 0

\* C19 as stated: the loop goes on while the status is any 3xx, so the
\* status at which collect returns is not a 3xx, and the result is True
\* exactly for 200.
C19_LoopsWhile3xx ==
    RedirectCallReturned =>
        /\ ~(status_code >= 300 /\ status_code < 400)
        /\ collected.value = "True" <=> status_code = 200

\* C19: in the loop of a redirect-following connector, a status strictly
\* between 300 and 400 leads to another HEAD request (or to the exception
\* of that request), every other status, 300 included, ends the call, and
\* the call returns True exactly when that status is 200.
C19_LoopsWhileRedirect ==
    [][pc = "loop" =>
         IF status_code > 300 /\ status_code < 400
         THEN pc' = "loop" \/ collected'.kind = "raise"
         ELSE /\ pc' = "done"
              /\ status_code' = status_code
              /\ collected' = Return(IF status_code = 200 THEN "True" ELSE "False")]_vars

C19_Witness ==
    /\ RedirectCallReturned
    /\ requests_made >= 2
    /\ status_code = 200
    /\ collected.value = "True"

\* a redirect-following connector has issued a HEAD request
RedirectLoopEntered == vocabulary \in RedirectFollowing /\ requests_made > 0

\* C20 as stated: against a server answering every HEAD request with a 3xx
\* status and a Location header, collect never returns.
C20_NeverReturnsOn3xx ==
    (RedirectLoopEntered /\ server = "every3xx") => pc = "loop"

\* C20: the loop has no iteration cap: against a server answering every
\* HEAD request with a status strictly between 300 and 400 and a Location
\* header, collect is still in its loop after any number of requests.
C20_NoIterationCap ==
    (RedirectLoopEntered /\ server = "redirecting") => pc = "loop"

C20_Witness ==
    /\ RedirectLoopEntered
    /\ server = "redirecting"
    /\ pc = "loop"
    /\ requests_made = MaxRequests
    /\ RedirectPending(status_code)

(***************************************************************************)
(* Properties of the scores and of the state kept between indicator calls  *)
(***************************************************************************)

\* the last indicator method called returned a (points, message) pair
IndicatorReturned == indicator.kind = "called" /\ indicator.out.kind = "result"

\* C21: in every (points, message) pair returned by an indicator method,
\* points is a number with 0 <= points <= 100.
C21_PointsInRange ==
    IndicatorReturned =>
        /\ indicator.out.points.den > 0
        /\ indicator.out.points.num >= 0
        /\ indicator.out.points.num <= 100 * indicator.out.points.den

C21_Witness ==
    /\ IndicatorReturned
    /\ indicator.name = "RDA_R1_01M"
    /\ indicator.out.points.num > 0
    /\ indicator.out.points.num < 100 * indicator.out.points.den

\* C22: an indicator call changes no state held by the evaluator
\* instance: self.cvs is the same after the call as before.
C22_IndicatorsKeepState == [][self_cvs' = self_cvs]_vars

\* C23: what rda_i2_01m returns does not depend on an earlier call of
\* rda_i1_01m on the instance: it is what the same call returns on an
\* instance on which no indicator was called before.
C23_I2IndependentOfHistory ==
    (indicator.kind = "called" /\ indicator.name = "RDA_I2_01M") =>
        \E links \in SUBSET Range(dict_vocabularies) :
            indicator.out = rda_i2_01m({}, WrapTermsCv, dict_vocabularies, links).out

\* the terms_map in which every scalar value is written as the list of
\* that one field
AsLists(terms_map) ==
    [i \in 1..Len(terms_map) |->
        IF terms_map[i].v.kind = "scalar"
        THEN Entry(terms_map[i].k, <<Name(terms_map[i].v.element)>>)
        ELSE terms_map[i]]

\* C24: a terms_map entry whose value is a scalar element name is treated
\* as the single field of that name: the license indicator returns what it
\* returns when the entry is written as the list holding that one field.
C24_ScalarIsOneField ==
    (indicator.kind = "called" /\ indicator.name = "RDA_R1_1_01M") =>
        indicator.out =
            rda_r1_1_01m(wrapper(plugin_metadata, AsLists(plugin_terms_map),
                                 config_terms_license, FALSE, NoCvs, NoRegistry))

(***************************************************************************)
(* Properties of rda_all                                                   *)
(***************************************************************************)

\* the rda_all request ended with the API description loaded
AllEnded == all_pc \in {"returned", "raised"} /\ api_config_found

\* C25: whatever the indicators do, raising included, rda_all returns
\* status 200 with the four groups, every indicator of the description was
\* evaluated and each one is recorded in the group of its own principle
\* with its own level.
C25_ErrorsRecordedAndLoopGoesOn ==
    AllEnded =>
        /\ all_response.kind = "response"
        /\ all_response.code = 200
        /\ {"findable", "accessible", "interoperable", "reusable"}
               \subseteq DOMAIN all_response.body
        /\ \A i \in 1..Len(paths) :
              paths[i].kind = "indicator" =>
                 /\ paths[i].code \in DOMAIN groups[GroupOf(paths[i].principle)]
                 /\ groups[GroupOf(paths[i].principle)][paths[i].code].weight
                        = paths[i].level

(***************************************************************************)
(* Properties of the topic connectors and of PIC                           *)
(***************************************************************************)

\* a collect(search_topic) call of a topic connector with a configured
\* endpoint has sent its request and ended
TopicCallEnded ==
    /\ pc = "done"
    /\ vocabulary \in TopicConnectors
    /\ remote_path # <<>>
    /\ requests_made = 1

\* C26: every collect(search_topic) call on a FAIRsharingRegistry or
\* GeoNames instance requests the URL a new instance would request for the
\* topic, the configured remote_path with the one query of that topic.
C26_SameUrlAsFreshInstance ==
    TopicCallEnded => remote_path = WithQuery(vocabulary, ConfiguredPath, term)

\* a PIC.collect(term) call got an answer from the portal
PICAnswered ==
    pc = "done" /\ vocabulary = "PIC" /\ events = <<"response">>

\* C28: PIC.collect(term) returns True when the PIC number of the term
\* exists and False when it does not.
C28_ResultTellsExistence ==
    PICAnswered => (collected = Return("True") <=> term \in ExistingPICs)

(***************************************************************************)
(* Properties of the temporal-coverage routine                             *)
(***************************************************************************)

\* gather was called for Temporal Coverage on the plugin's routines
TemporalCoverageGathered ==
    gathered # Idle /\ cls = "MetadataValues" /\ element = "Temporal Coverage"

\* C27: every record the temporal-coverage routine yields holds the start
\* date S and the end date E of its raw value (S = a and E = b in every raw
\* value that names both), whatever the arrangement of the value; a value
\* "start=S;end=E" yields its record.
C27_TemporalCoverageDates ==
    TemporalCoverageGathered =>
        /\ \A i \in 1..Len(gathered.values) :
              DOMAIN gathered.values[i] = {"start_date", "end_date"} =>
                 /\ gathered.values[i].start_date = <<"a">>
                 /\ gathered.values[i].end_date = <<"b">>
        /\ \A i \in 1..Len(element_values) :
              element_values[i] = ValPeriod =>
                 \E j \in 1..Len(gathered.values) :
                    gathered.values[j] = [start_date |-> <<"a">>, end_date |-> <<"b">>]

(***************************************************************************)
(* Properties of gbif_download_request                                     *)
(***************************************************************************)

\* a call with a timeout and with a download key polls the status
PollingWithTimeout == gbif_pc # "idle" /\ timeout > 0 /\ download_key_ok

\* C29: with timeout > 0 the polling loop ends by returning: the call ends
\* with the last answer polled as its result, and it is out of the loop
\* once the status is no longer PREPARING or RUNNING or the timeout has
\* passed.
C29_PollingEndsWithLastStatus ==
    PollingWithTimeout =>
        /\ gbif_pc = "done" =>
              /\ gbif_result.kind = "return"
              /\ gbif_result.value = download_request
        /\ elapsed < timeout + 2 * PollPeriod

(***************************************************************************)
(* Properties of get_metadata_api                                          *)
(***************************************************************************)

\* the requests the call needs an answer 200 to: one look-up, the metadata
\* and the files
AllSucceeded ==
    /\ succeeded \cap {"find", "find_doi"} # {}
    /\ {"metadata", "bitstreams"} \subseteq succeeded

====
